---- MODULE Spec2Model ----
(***************************************************************************)
(* Schema-driven document engine of firestore-admin-panel: the collection  *)
(* page (CollectionViewer), the validation library, the changelog service  *)
(* and the role-permission hook.                                           *)
(*                                                                         *)
(* JavaScript values are records [t, n, s]: t is the typeof tag, n the     *)
(* number (or 0/1 for a boolean), s the string as a sequence of            *)
(* one-character strings.  Objects are functions from keys to values.      *)
(***************************************************************************)
EXTENDS Integers, Sequences, FiniteSets, TLC

VARIABLES
  store,              \* remote collection: document id -> stored data object
  audit,              \* remote "changelog" collection, in append order
  currentUser,        \* auth.currentUser
  permissions,        \* useRolePermissions().permissions
  fields,             \* useState fields (the active schema)
  cachedDocs,         \* useState cachedDocs
  cachedFilteredDocs, \* useState cachedFilteredDocs
  docs,               \* useState docs (the displayed rows)
  query,              \* debouncedSearch, currentPage, sortField, sortDirection
  selectedDocs,       \* useState selectedDocs
  form,               \* editingDoc, editFields, newDocFields, modal flags, bulk inputs
  loading,            \* useState loading (fetchAllDocs in flight)
  minted,             \* how many document ids the store has generated
  usersStore,         \* remote "users" collection: uid -> user document
  rolesStore,         \* remote "roles" collection: role name -> role document
  started,            \* how many mutation handlers have been invoked
  op,                 \* the handler invocation in flight (or the last one finished)
  collectionName,     \* params.collection, the active collection
  pending,            \* the getDocs / getDoc requests of the page awaiting a response
  uploadFile,         \* useState uploadFile: the content of the chosen file
  download,           \* the CSV file downloadCSV last produced
  calc,               \* the arguments and the result of the last library call
  peer                \* the page state of a second tab of the same session

vars == <<store, audit, currentUser, permissions, fields, cachedDocs,
          cachedFilteredDocs, docs, query, selectedDocs, form, loading, minted,
          usersStore, rolesStore, started, op, collectionName, pending,
          uploadFile, download, calc, peer>>

----------------------------------------------------------------------------
(* JavaScript values *)

Num(i) == [t |-> "number", n |-> i, s |-> <<>>]
Str(cs) == [t |-> "string", n |-> 0, s |-> cs]
Bool(b) == [t |-> "boolean", n |-> IF b THEN 1 ELSE 0, s |-> <<>>]
Null == [t |-> "null", n |-> 0, s |-> <<>>]
Undefined == [t |-> "undefined", n |-> 0, s |-> <<>>]
NaN == [t |-> "NaN", n |-> 0, s |-> <<>>]

\* obj[key] of a JavaScript object: undefined when the key is absent
Get(obj, key) == IF key \in DOMAIN obj THEN obj[key] ELSE Undefined

\* { ...a, ...b }
Spread(a, b) ==
  [k \in (DOMAIN a) \cup (DOMAIN b) |-> IF k \in DOMAIN b THEN b[k] ELSE a[k]]

EmptyObj == [k \in {} |-> Null]

Digits == <<"0", "1", "2", "3", "4", "5", "6", "7", "8", "9">>

IsDigit(c) == \E i \in 1..10 : Digits[i] = c

DigitVal(c) == (CHOOSE i \in 1..10 : Digits[i] = c) - 1

RECURSIVE NatToStr(_)
NatToStr(i) ==
  IF i < 10 THEN <<Digits[i + 1]>>
  ELSE NatToStr(i \div 10) \o <<Digits[(i % 10) + 1]>>

\* String(v)
ToStr(v) ==
  CASE v.t = "string" -> v.s
    [] v.t = "number" -> IF v.n < 0 THEN <<"-">> \o NatToStr(-v.n) ELSE NatToStr(v.n)
    [] v.t = "boolean" -> IF v.n = 1 THEN <<"t", "r", "u", "e">>
                          ELSE <<"f", "a", "l", "s", "e">>
    [] v.t = "null" -> <<"n", "u", "l", "l">>
    [] v.t = "NaN" -> <<"N", "a", "N">>
    [] OTHER -> <<"u", "n", "d", "e", "f", "i", "n", "e", "d">>

\* the length of the leading run of decimal digits of cs
RECURSIVE DigitRun(_)
DigitRun(cs) ==
  IF cs = <<>> \/ ~IsDigit(Head(cs)) THEN 0 ELSE 1 + DigitRun(Tail(cs))

RECURSIVE DigitsVal(_, _)
DigitsVal(cs, acc) ==
  IF cs = <<>> THEN acc ELSE DigitsVal(Tail(cs), acc * 10 + DigitVal(Head(cs)))

RECURSIVE SkipSpaces(_)
SkipSpaces(cs) ==
  IF cs # <<>> /\ Head(cs) = " " THEN SkipSpaces(Tail(cs)) ELSE cs

\* parseFloat(cs) on inputs without a fraction or exponent part: leading
\* blanks, an optional sign, the longest run of digits; NaN without a digit
parseFloat(cs) ==
  LET body == SkipSpaces(cs)
      signed == body # <<>> /\ Head(body) \in {"-", "+"}
      rest == IF signed THEN Tail(body) ELSE body
      k == DigitRun(rest)
      mag == DigitsVal(SubSeq(rest, 1, k), 0)
  IN IF k = 0 THEN NaN
     ELSE Num(IF signed /\ Head(body) = "-" THEN -mag ELSE mag)

\* JavaScript truthiness, for x || y
Truthy(v) ==
  CASE v.t = "number" -> v.n # 0
    [] v.t = "string" -> v.s # <<>>
    [] v.t = "boolean" -> v.n = 1
    [] OTHER -> FALSE

\* x || 0
OrZero(v) == IF Truthy(v) THEN v ELSE Num(0)

----------------------------------------------------------------------------
(* Schema model: FieldDef and ValidationRule *)

\* a ValidationRule; present = FALSE is a FieldDef without validation
Rule(required, hasMin, min, hasMax, max, pattern, email, url) ==
  [present |-> TRUE, required |-> required, hasMin |-> hasMin, min |-> min,
   hasMax |-> hasMax, max |-> max, pattern |-> pattern, email |-> email,
   url |-> url]

NoRule ==
  [present |-> FALSE, required |-> FALSE, hasMin |-> FALSE, min |-> 0,
   hasMax |-> FALSE, max |-> 0, pattern |-> "", email |-> FALSE, url |-> FALSE]

FieldDef(name, type, validation) ==
  [name |-> name, type |-> type, validation |-> validation]

----------------------------------------------------------------------------
(* Validation engine *)

NoError == [field |-> "", message |-> ""]

Err(fieldName, message) == [field |-> fieldName, message |-> message]

IsEmptyValue(v) == v.t \in {"null", "undefined"} \/ (v.t = "string" /\ v.s = <<>>)

Letters ==
  {"a", "b", "c", "d", "e", "f", "g", "h", "i", "j", "k", "l", "m", "n", "o",
   "p", "q", "r", "s", "t", "u", "v", "w", "x", "y", "z"}

\* the patterns the schemas of this model use: "" is no pattern, "(" does not
\* compile, "^[0-9]+$" matches the non-empty digit strings
PatternCompiles(pattern) == pattern # "("

PatternTest(pattern, cs) ==
  IF pattern = "^[0-9]+$" THEN cs # <<>> /\ DigitRun(cs) = Len(cs) ELSE TRUE

\* [^\s@]+
NoBlankNoAt(cs) == cs # <<>> /\ \A i \in 1..Len(cs) : cs[i] \notin {" ", "@", "\n"}

\* /^[^\s@]+@[^\s@]+\.[^\s@]+$/
EmailTest(cs) ==
  \E i \in 1..Len(cs) : \E j \in 1..Len(cs) :
    /\ i < j
    /\ cs[i] = "@"
    /\ cs[j] = "."
    /\ NoBlankNoAt(SubSeq(cs, 1, i - 1))
    /\ NoBlankNoAt(SubSeq(cs, i + 1, j - 1))
    /\ NoBlankNoAt(SubSeq(cs, j + 1, Len(cs)))

\* new URL(cs) does not throw: an absolute URL starts with a scheme, a letter
\* followed by letters, digits, "+", "-", ".", then ":"
UrlParses(cs) ==
  \E i \in 2..Len(cs) :
    /\ cs[i] = ":"
    /\ cs[1] \in Letters
    /\ \A j \in 2..(i - 1) : cs[j] \in Letters \/ IsDigit(cs[j]) \/ cs[j] \in {"+", "-", "."}

validateField_falsy(fieldName, value, validation) ==
  IF ~validation.present THEN NoError
  ELSE IF validation.required /\ ~Truthy(value) THEN Err(fieldName, "is required")
  ELSE IF IsEmptyValue(value) THEN NoError
  ELSE IF value.t = "number" /\ validation.hasMin /\ value.n < validation.min
    THEN Err(fieldName, "must be at least min")
  ELSE IF value.t = "number" /\ validation.hasMax /\ value.n > validation.max
    THEN Err(fieldName, "must be at most max")
  ELSE NoError

validateField(fieldName, value, validation) ==
  IF ~validation.present THEN NoError
  ELSE IF validation.required /\ IsEmptyValue(value)
    THEN Err(fieldName, "is required")
  ELSE IF IsEmptyValue(value) THEN NoError
  ELSE IF value.t = "number" /\ validation.hasMin /\ value.n < validation.min
    THEN Err(fieldName, "must be at least min")
  ELSE IF value.t = "number" /\ validation.hasMax /\ value.n > validation.max
    THEN Err(fieldName, "must be at most max")
  ELSE IF value.t = "string" /\ validation.pattern # ""
          /\ ~PatternCompiles(validation.pattern)
    THEN Err(fieldName, "Invalid validation pattern")
  ELSE IF value.t = "string" /\ validation.pattern # ""
          /\ ~PatternTest(validation.pattern, value.s)
    THEN Err(fieldName, "has an invalid format")
  ELSE IF validation.email /\ value.t = "string" /\ ~EmailTest(value.s)
    THEN Err(fieldName, "Please enter a valid email address")
  ELSE IF validation.url /\ value.t = "string" /\ ~UrlParses(value.s)
    THEN Err(fieldName, "Please enter a valid URL")
  ELSE IF value.t = "string" /\ validation.hasMin /\ Len(value.s) < validation.min
    THEN Err(fieldName, "must be at least min characters")
  ELSE IF value.t = "string" /\ validation.hasMax /\ Len(value.s) > validation.max
    THEN Err(fieldName, "must be at most max characters")
  ELSE NoError

DocumentErrors_firstOnly(doc, flds) ==
  LET bad == {i \in 1..Len(flds) :
                validateField(flds[i].name, Get(doc, flds[i].name),
                              flds[i].validation) # NoError}
  IN IF bad = {} THEN <<>>
     ELSE LET i == CHOOSE i \in bad : \A j \in bad : i <= j
          IN <<validateField(flds[i].name, Get(doc, flds[i].name), flds[i].validation)>>

\* the errors of the declared fields, in declaration order
RECURSIVE DocumentErrors(_, _)
DocumentErrors(doc, flds) ==
  IF flds = <<>> THEN <<>>
  ELSE LET f == Head(flds)
           e == validateField(f.name, Get(doc, f.name), f.validation)
       IN (IF e = NoError THEN <<>> ELSE <<e>>) \o DocumentErrors(doc, Tail(flds))

validateDocument(doc, flds) ==
  LET errors == DocumentErrors(doc, flds)
  IN [isValid |-> Len(errors) = 0, errors |-> errors]

\* validateField of lib/validation.ts, the second copy of the library in the
\* repository: no return for an empty optional value, no string-length check
validateFieldLib(fieldName, value, validation) ==
  IF ~validation.present THEN NoError
  ELSE IF validation.required /\ IsEmptyValue(value)
    THEN Err(fieldName, "This field is required")
  ELSE IF value.t = "number" /\ validation.hasMin /\ value.n < validation.min
    THEN Err(fieldName, "Value must be at least min")
  ELSE IF value.t = "number" /\ validation.hasMax /\ value.n > validation.max
    THEN Err(fieldName, "Value must be at most max")
  ELSE IF value.t = "string" /\ validation.pattern # ""
          /\ ~PatternCompiles(validation.pattern)
    THEN Err(fieldName, "Invalid validation pattern")
  ELSE IF value.t = "string" /\ validation.pattern # ""
          /\ ~PatternTest(validation.pattern, value.s)
    THEN Err(fieldName, "Invalid format")
  ELSE IF validation.email /\ value.t = "string" /\ ~EmailTest(value.s)
    THEN Err(fieldName, "Invalid email address")
  ELSE IF validation.url /\ value.t = "string" /\ ~UrlParses(value.s)
    THEN Err(fieldName, "Invalid URL")
  ELSE NoError

RECURSIVE DocumentErrorsLib(_, _)
DocumentErrorsLib(doc, flds) ==
  IF flds = <<>> THEN <<>>
  ELSE LET f == Head(flds)
           e == validateFieldLib(f.name, Get(doc, f.name), f.validation)
       IN (IF e = NoError THEN <<>> ELSE <<e>>) \o DocumentErrorsLib(doc, Tail(flds))

\* validateDocument of lib/validation.ts
validateDocumentLib(doc, flds) ==
  LET errors == DocumentErrorsLib(doc, flds)
  IN [isValid |-> Len(errors) = 0, errors |-> errors]

----------------------------------------------------------------------------
(* Value coercion, as written inline in saveEdit, addDocument, handleCSVUpload
   and handleBulkEdit *)

TrueStr == <<"t", "r", "u", "e">>
FalseStr == <<"f", "a", "l", "s", "e">>

Coerce_noDefault(f, val) ==
  IF f.type = "number" THEN parseFloat(val)
  ELSE IF f.type = "boolean" THEN Bool(val = TrueStr)
  ELSE Str(val)

Coerce(f, val) ==
  IF f.type = "number" THEN OrZero(parseFloat(val))
  ELSE IF f.type = "boolean" THEN Bool(val = TrueStr)
  ELSE Str(val)

\* validateAndUpdateField: the error validateField reports for the value the
\* form validates (the parsed number of a number field, the raw string of
\* every other field)
FieldError(fieldDef, value) ==
  validateField(fieldDef.name,
                IF fieldDef.type = "number" THEN OrZero(parseFloat(value)) ELSE Str(value),
                fieldDef.validation)

\* the form's map name -> raw string, read as editFields[f.name] ?? ""
Raw(formFields, name) == IF name \in DOMAIN formFields THEN formFields[name] ELSE <<>>

\* the object built field by field in saveEdit / addDocument
CoerceAll(flds, formFields) ==
  [k \in {flds[i].name : i \in 1..Len(flds)} |->
     LET f == flds[CHOOSE i \in 1..Len(flds) : flds[i].name = k]
     IN Coerce(f, Raw(formFields, k))]

\* the error messages validateAndUpdateField stores, "" for a valid field
FormErrors(flds, formFields) ==
  [k \in {flds[i].name : i \in 1..Len(flds)} |->
     LET f == flds[CHOOSE i \in 1..Len(flds) : flds[i].name = k]
     IN FieldError(f, Raw(formFields, k)).message]

HasErrors_rawValue(flds, formFields) ==
  \E i \in 1..Len(flds) :
    validateField(flds[i].name, Str(Raw(formFields, flds[i].name)),
                  flds[i].validation) # NoError

HasErrors(flds, formFields) ==
  \E i \in 1..Len(flds) : FieldError(flds[i], Raw(formFields, flds[i].name)) # NoError

----------------------------------------------------------------------------
(* Remote document store *)

Id1 == <<"d", "1">>
Id2 == <<"d", "2">>

\* the number of ids the store can generate for created documents
MaxNewIds == 1

NewId(i) == <<"n", Digits[i + 1]>>

\* every document id, in the order list-documents returns them (by id)
IdOrder == <<Id1, Id2>> \o [i \in 1..MaxNewIds |-> NewId(i)]

Ids == {IdOrder[i] : i \in 1..Len(IdOrder)}

\* snap.docs.map((d) => ({ id: d.id, ...d.data() })) of getDocs(collection)
Snapshot(st) ==
  LET present == SelectSeq(IdOrder, LAMBDA i : i \in DOMAIN st)
  IN [k \in 1..Len(present) |->
        Spread([key \in {"id"} |-> Str(present[k])], st[present[k]])]

DocId(d) == d["id"].s

IdsOf(list) == {DocId(list[i]) : i \in 1..Len(list)}

\* docs.find(d => d.id === id): 0 when there is none
FindIndex(list, id) ==
  IF \E i \in 1..Len(list) : DocId(list[i]) = id
  THEN CHOOSE i \in 1..Len(list) :
         DocId(list[i]) = id /\ \A j \in 1..(i - 1) : DocId(list[j]) # id
  ELSE 0

----------------------------------------------------------------------------
(* Query engine: processFilters, processedDocs, currentPageDocs *)

ITEMS_PER_PAGE == 20

LowerLetters ==
  <<"a", "b", "c", "d", "e", "f", "g", "h", "i", "j", "k", "l", "m", "n", "o",
    "p", "q", "r", "s", "t", "u", "v", "w", "x", "y", "z">>

UpperLetters ==
  <<"A", "B", "C", "D", "E", "F", "G", "H", "I", "J", "K", "L", "M", "N", "O",
    "P", "Q", "R", "S", "T", "U", "V", "W", "X", "Y", "Z">>

LowerChar(c) ==
  IF \E i \in 1..26 : UpperLetters[i] = c
  THEN LowerLetters[CHOOSE i \in 1..26 : UpperLetters[i] = c]
  ELSE c

\* s.toLowerCase()
ToLowerCase(cs) == [i \in 1..Len(cs) |-> LowerChar(cs[i])]

\* hay.includes(needle)
Includes(hay, needle) ==
  \E i \in 1..(Len(hay) + 1) :
    /\ i + Len(needle) - 1 <= Len(hay)
    /\ SubSeq(hay, i, i + Len(needle) - 1) = needle

\* Number(v)
ToNumber(v) ==
  CASE v.t = "number" -> v
    [] v.t = "boolean" -> Num(v.n)
    [] v.t = "null" -> Num(0)
    [] v.t = "string" ->
         LET body == SkipSpaces(v.s)
             signed == body # <<>> /\ Head(body) \in {"-", "+"}
             rest == IF signed THEN Tail(body) ELSE body
         IN IF body = <<>> THEN Num(0)
            ELSE IF rest # <<>> /\ DigitRun(rest) = Len(rest) THEN parseFloat(v.s)
            ELSE NaN
    [] OTHER -> NaN

\* a < b on JavaScript numbers: false when either is NaN
NumLess(a, b) == a.t = "number" /\ b.t = "number" /\ a.n < b.n

\* a === b: NaN equals nothing
StrictEq(a, b) == a.t # "NaN" /\ a = b

NoFilters == [k \in {} |-> Str(<<>>)]

NoOperators == [k \in {} |-> "="]

\* the text search of processFilters
MatchesSearch(doc, search) ==
  search = <<>>
  \/ \E key \in (DOMAIN doc) \ {"id"} :
       Includes(ToLowerCase(ToStr(doc[key])), ToLowerCase(search))

\* one advanced filter of processFilters: TRUE when the document is retained
PassesFilter(doc, flds, operators, fieldName, filterValue) ==
  IF StrictEq(filterValue, Str(<<>>)) THEN TRUE
  ELSE IF ~\E i \in 1..Len(flds) : flds[i].name = fieldName THEN TRUE
  ELSE
    LET field == flds[CHOOSE i \in 1..Len(flds) : flds[i].name = fieldName]
        docValue == Get(doc, fieldName)
        operator == IF fieldName \in DOMAIN operators /\ operators[fieldName] # ""
                    THEN operators[fieldName] ELSE "="
        numValue == ToNumber(filterValue)
        numDocValue == ToNumber(docValue)
    IN CASE field.type = "number" ->
              (CASE operator = "=" -> StrictEq(numDocValue, numValue)
                 [] operator = ">" ->
                      ~(NumLess(numDocValue, numValue) \/ StrictEq(numDocValue, numValue))
                 [] operator = "<" ->
                      ~(NumLess(numValue, numDocValue) \/ StrictEq(numDocValue, numValue))
                 [] operator = ">=" -> ~NumLess(numDocValue, numValue)
                 [] operator = "<=" -> ~NumLess(numValue, numDocValue)
                 [] OTHER -> TRUE)
         [] field.type = "boolean" -> StrictEq(Str(ToStr(docValue)), filterValue)
         [] field.type = "select" -> StrictEq(docValue, filterValue)
         [] OTHER ->
              Includes(ToLowerCase(ToStr(docValue)), ToLowerCase(ToStr(filterValue)))

Retained(doc, flds, q) ==
  /\ MatchesSearch(doc, q.debouncedSearch)
  /\ \A name \in DOMAIN q.debouncedFilters :
       PassesFilter(doc, flds, q.numberOperators, name, q.debouncedFilters[name])

\* processFilters: the next cachedFilteredDocs (unchanged for an empty cache)
processFilters(cache, filtered, flds, q) ==
  IF Len(cache) = 0 THEN filtered
  ELSE SelectSeq(cache, LAMBDA d : Retained(d, flds, q))

\* the collation of the characters of this model, for localeCompare
Collation == Digits \o LowerLetters

CharRank(c) ==
  IF \E i \in 1..Len(Collation) : Collation[i] = LowerChar(c)
  THEN CHOOSE i \in 1..Len(Collation) : Collation[i] = LowerChar(c)
  ELSE 0

\* a.localeCompare(b) as -1, 0, 1
RECURSIVE localeCompare(_, _)
localeCompare(a, b) ==
  IF a = <<>> /\ b = <<>> THEN 0
  ELSE IF a = <<>> THEN -1
  ELSE IF b = <<>> THEN 1
  ELSE IF CharRank(Head(a)) < CharRank(Head(b)) THEN -1
  ELSE IF CharRank(Head(a)) > CharRank(Head(b)) THEN 1
  ELSE localeCompare(Tail(a), Tail(b))

NoSort == "null"

\* the comparator of processedDocs
SortCompare(a, b, flds, sortField, sortDirection) ==
  IF ~\E i \in 1..Len(flds) : flds[i].name = sortField THEN 0
  ELSE
    LET field == flds[CHOOSE i \in 1..Len(flds) : flds[i].name = sortField]
        aValue == Get(a, sortField)
        bValue == Get(b, sortField)
        na == ToNumber(aValue)
        nb == ToNumber(bValue)
        comparison ==
          IF field.type = "number"
          THEN (IF na.t = "NaN" \/ nb.t = "NaN" THEN 0 ELSE na.n - nb.n)
          ELSE localeCompare(ToStr(aValue), ToStr(bValue))
    IN IF aValue.t \in {"null", "undefined"} THEN 1
       ELSE IF bValue.t \in {"null", "undefined"} THEN -1
       ELSE IF sortDirection = "asc" THEN comparison ELSE -comparison

\* insert d behind the last element it does not sort before
RECURSIVE InsertSorted(_, _, _, _, _)
InsertSorted(sorted, d, flds, sortField, sortDirection) ==
  IF sorted = <<>> THEN <<d>>
  ELSE LET last == sorted[Len(sorted)]
       IN IF SortCompare(d, last, flds, sortField, sortDirection) < 0
          THEN InsertSorted(SubSeq(sorted, 1, Len(sorted) - 1), d, flds,
                            sortField, sortDirection) \o <<last>>
          ELSE sorted \o <<d>>

\* [...list].sort(comparator): a stable insertion sort
RECURSIVE SortDocs(_, _, _, _)
SortDocs(list, flds, sortField, sortDirection) ==
  IF list = <<>> THEN <<>>
  ELSE InsertSorted(SortDocs(SubSeq(list, 1, Len(list) - 1), flds, sortField,
                             sortDirection),
                    list[Len(list)], flds, sortField, sortDirection)

processedDocs(filtered, flds, q) ==
  IF Len(filtered) = 0 THEN <<>>
  ELSE IF q.sortField = NoSort \/ q.sortDirection = NoSort THEN filtered
  ELSE SortDocs(filtered, flds, q.sortField, q.sortDirection)

\* list.slice(from, to) with 0-based bounds
Slice(list, from, to) ==
  LET hi == IF to < Len(list) THEN to ELSE Len(list)
  IN IF from >= hi THEN <<>> ELSE SubSeq(list, from + 1, hi)

currentPageDocs(processed, q) ==
  Slice(processed, (q.currentPage - 1) * ITEMS_PER_PAGE,
        (q.currentPage - 1) * ITEMS_PER_PAGE + ITEMS_PER_PAGE)

\* the rows the effects display for a cache: processFilters, then the
\* processedDocs and currentPageDocs memos, then setDocs(currentPageDocs)
DisplayOf(filtered, flds, q) == currentPageDocs(processedDocs(filtered, flds, q), q)

----------------------------------------------------------------------------
(* Permission evaluator: useRolePermissions *)

NoUser == [uid |-> "", email |-> <<>>]

Perms(role, canView, canEdit, canDelete, canManageRoles) ==
  [isNull |-> FALSE, role |-> role, canView |-> canView, canEdit |-> canEdit,
   canDelete |-> canDelete, canManageRoles |-> canManageRoles]

\* useState<Permissions | null>(null): permissions?.x is falsy
NullPermissions ==
  [isNull |-> TRUE, role |-> "", canView |-> FALSE, canEdit |-> FALSE,
   canDelete |-> FALSE, canManageRoles |-> FALSE]

AllPerms(role, b) == Perms(role, b, b, b, b)

\* a role document: kind "new" carries a permissions object, kind "legacy"
\* is a document without one
RoleDoc(kind, canView, canEdit, canDelete, canManageRoles) ==
  [kind |-> kind, canView |-> canView, canEdit |-> canEdit,
   canDelete |-> canDelete, canManageRoles |-> canManageRoles]

AdminStr == <<"a", "d", "m", "i", "n">>

\* userData?.role ?? "viewer"
AssignedRole(user, users) ==
  IF user.uid \in DOMAIN users /\ users[user.uid].role # "" THEN users[user.uid].role
  ELSE "viewer"

\* the permissions the onAuthStateChanged callback sets for a signed-in user;
\* readFails: a getDoc of the resolution throws
ResolvePermissions(user, users, roles, readFails) ==
  IF readFails
  THEN LET isAdmin == Includes(ToLowerCase(user.email), AdminStr)
       IN AllPerms(IF isAdmin THEN "admin" ELSE "unknown", isAdmin)
  ELSE
    LET role == AssignedRole(user, users)
    IN IF role \in DOMAIN roles /\ roles[role].kind = "new"
       THEN Perms(role, roles[role].canView, roles[role].canEdit,
                  roles[role].canDelete, roles[role].canManageRoles)
       ELSE IF role \in DOMAIN roles
       THEN AllPerms(role, FALSE)
       ELSE AllPerms(role, role = "admin")

----------------------------------------------------------------------------
(* Audit log: ChangelogService.addEntry *)

UnknownEmail ==
  <<"u", "n", "k", "n", "o", "w", "n", "@", "e", "x", "a", "m", "p", "l", "e",
    ".", "c", "o", "m">>

CollectionName == "items"

\* useState<File | null>(null)
NoFile == [chosen |-> FALSE, text |-> <<>>]

\* no second tab is open
NoPeer == [open |-> FALSE]

\* no file has been downloaded; rows are the documents a file was made from
NoDownload == [made |-> FALSE, text |-> <<>>, rows |-> <<>>]

\* no library function has been called
NoCall == [fn |-> "none", done |-> FALSE]

\* the entry a handler passes to ChangelogService.addEntry; the timestamp
\* Date.now() that addEntry adds is not part of the model
AuditEntry(user, action, documentId, before, after) ==
  [userId |-> user.uid,
   userEmail |-> IF user.email # <<>> THEN user.email ELSE UnknownEmail,
   action |-> action,
   collection |-> CollectionName,
   documentId |-> documentId,
   before |-> before,
   after |-> after]

\* changes of the entry saveEdit records
UpdateChanges_swapped(editingDoc, updated) == [before |-> updated, after |-> editingDoc]

UpdateChanges(editingDoc, updated) == [before |-> editingDoc, after |-> updated]

\* changes of the entry handleDelete records
DeleteChanges(docToDelete, id) ==
  [before |-> Spread(docToDelete, [key \in {"id"} |-> Str(id)]),
   after |-> [key \in {"id"} |-> Str(id)]]

\* changes of the entry addDocument records
CreateChanges(parsed) == [before |-> EmptyObj, after |-> parsed]

\* changes of the entry handleBulkEdit records for one displayed document
BulkChanges(doc, bulkEditField, parsedValue) ==
  [before |-> [key \in {bulkEditField} |-> Get(doc, bulkEditField)],
   after |-> [key \in {bulkEditField} |-> parsedValue]]

----------------------------------------------------------------------------
(* Mutation coordinator: one record per handler invocation *)

\* the number of mutation handler invocations of a run
MaxOps == 2

Stage(name, ok) == [stage |-> name, ok |-> ok]

IdleOp ==
  [kind |-> "none", pc |-> "done", outcome |-> "none", trace |-> <<>>,
   attempts |-> 0, target |-> <<>>, ids |-> {}, field |-> "",
   payload |-> EmptyObj, before |-> EmptyObj, value |-> Null, notes |-> <<>>,
   base |-> 0, docs0 |-> <<>>, cache0 |-> <<>>, store0 |-> EmptyObj,
   perm |-> NullPermissions, user |-> NoUser,
   file |-> <<>>, header |-> <<>>, rows |-> <<>>, writes |-> <<>>,
   successCount |-> 0, errorCount |-> 0]

\* the record of an invocation that starts now
NewOp(kind) ==
  [IdleOp EXCEPT !.kind = kind, !.base = Len(audit), !.docs0 = docs,
                 !.cache0 = cachedDocs, !.store0 = store, !.perm = permissions]

\* the invocation returned or threw before anything was awaited
Returned(o, outcome, stages, notes) ==
  [o EXCEPT !.pc = "done", !.outcome = outcome, !.trace = stages, !.notes = notes]

\* the invocation called batch.commit() and awaits it
Committing(o, stages) ==
  [o EXCEPT !.pc = "commit", !.trace = stages, !.attempts = @ + 1]

InFlight == op.pc # "done"

\* the page is mounted for a signed-in user, no handler is running and the
\* run has invocations left
Ready == currentUser # NoUser /\ ~InFlight /\ started < MaxOps

\* no modal covers the page: its buttons, rows and search box can be used
NoModal == ~form.modalOpened /\ ~form.addModalOpened /\ ~form.bulkEditModalOpened

FieldNames(flds) == {flds[i].name : i \in 1..Len(flds)}

FieldByName(flds, name) == flds[CHOOSE i \in 1..Len(flds) : flds[i].name = name]

----------------------------------------------------------------------------
(* The collection of the mutation specification: its schema, its documents,
   the users and the roles *)

PriceRule == Rule(FALSE, TRUE, 0, FALSE, 0, "", FALSE, FALSE)

PriceSchema == <<FieldDef("price", "number", PriceRule)>>

InitialStore ==
  (Id1 :> [price |-> Num(10)]) @@ (Id2 :> [price |-> Num(20), note |-> Str(<<"x">>)])

Alice == [uid |-> "alice", email |-> <<"a", "@", "x", ".", "y">>]
Bob == [uid |-> "bob", email |-> <<>>]

Root == [uid |-> "root", email |-> <<"r", "@", "x", ".", "y">>]

Users == {Alice, Bob}

InitialUsers ==
  ("alice" :> [role |-> "editor"]) @@ ("bob" :> [role |-> ""])
  @@ ("root" :> [role |-> "admin"])

InitialRoles ==
  ("editor" :> RoleDoc("new", TRUE, TRUE, TRUE, FALSE))
  @@ ("viewer" :> RoleDoc("new", TRUE, FALSE, FALSE, FALSE))

\* the strings typed into a form field
RawInputs == {<<"-", "5">>, <<"2", "0">>}

\* the strings typed into the search box
SearchTerms == {<<>>, <<"2">>}

InitialQuery ==
  [debouncedSearch |-> <<>>, debouncedFilters |-> NoFilters,
   numberOperators |-> NoOperators, currentPage |-> 1, sortField |-> NoSort,
   sortDirection |-> NoSort]

NoFormFields == [k \in {} |-> <<>>]

NoFormErrors == [k \in {} |-> ""]

InitialForm ==
  [hasEditing |-> FALSE, editingDoc |-> EmptyObj, editFields |-> NoFormFields,
   editFieldErrors |-> NoFormErrors, modalOpened |-> FALSE,
   newDocFields |-> NoFormFields, newFieldErrors |-> NoFormErrors,
   addModalOpened |-> FALSE, bulkEditModalOpened |-> FALSE,
   bulkEditField |-> "", bulkEditValue |-> <<>>]

\* the page has mounted with its schema loaded; fetchAllDocs is in flight and
\* the identity provider has not reported the session yet
Init ==
  /\ store = InitialStore
  /\ audit = <<>>
  /\ currentUser = NoUser
  /\ permissions = NullPermissions
  /\ fields = PriceSchema
  /\ cachedDocs = <<>>
  /\ cachedFilteredDocs = <<>>
  /\ docs = <<>>
  /\ query = InitialQuery
  /\ selectedDocs = {}
  /\ form = InitialForm
  /\ loading = TRUE
  /\ minted = 0
  /\ usersStore = InitialUsers
  /\ rolesStore = InitialRoles
  /\ started = 0
  /\ op = IdleOp
  /\ collectionName = CollectionName
  /\ pending = {}
  /\ uploadFile = NoFile
  /\ download = NoDownload
  /\ peer = NoPeer
  /\ calc = NoCall

----------------------------------------------------------------------------
(* Session and fetch *)

\* onAuthStateChanged of useRolePermissions and of the page: a sign-out
\* leaves the permissions as they are and navigates away from the page
AuthStateChanged(user, readFails) ==
  /\ user # currentUser
  /\ currentUser # NoUser \/ permissions.isNull
  /\ currentUser' = user
  /\ permissions' = IF user = NoUser THEN permissions
                    ELSE ResolvePermissions(user, usersStore, rolesStore, readFails)
  /\ UNCHANGED <<store, audit, fields, cachedDocs, cachedFilteredDocs, docs, query,
                 selectedDocs, form, loading, minted, usersStore, rolesStore, op, started,
                 collectionName, pending, uploadFile, download, calc, peer>>

\* the effects that follow a new cachedDocs, search or filter: processFilters
\* sets cachedFilteredDocs and the memos set docs; an empty cache sets neither
Refiltered(cache, q) ==
  /\ cachedFilteredDocs' = processFilters(cache, cachedFilteredDocs, fields, q)
  /\ docs' = IF Len(cache) = 0 THEN docs
             ELSE DisplayOf(processFilters(cache, cachedFilteredDocs, fields, q),
                            fields, q)

\* fetchAllDocs: getDocs resolved
fetchAllDocsResolve ==
  /\ loading
  /\ cachedDocs' = Snapshot(store)
  /\ loading' = FALSE
  /\ Refiltered(Snapshot(store), query)
  /\ UNCHANGED <<store, audit, currentUser, permissions, fields, query,
                 selectedDocs, form, minted, usersStore, rolesStore, op, started,
                 collectionName, pending, uploadFile, download, calc, peer>>

\* fetchAllDocs: getDocs threw
fetchAllDocsReject ==
  /\ loading
  /\ loading' = FALSE
  /\ UNCHANGED <<store, audit, currentUser, permissions, fields, cachedDocs,
                 cachedFilteredDocs, docs, query, selectedDocs, form, minted,
                 usersStore, rolesStore, op, started,
                 collectionName, pending, uploadFile, download, calc, peer>>

\* setSearch, once the debounce delay has passed
setSearch(term) ==
  /\ Ready /\ NoModal
  /\ op' = IdleOp
  /\ term # query.debouncedSearch
  /\ query' = [query EXCEPT !.debouncedSearch = term]
  /\ Refiltered(cachedDocs, query')
  /\ UNCHANGED <<store, audit, currentUser, permissions, fields, cachedDocs,
                 selectedDocs, form, loading, minted, usersStore, rolesStore, started,
                 collectionName, pending, uploadFile, download, calc, peer>>

----------------------------------------------------------------------------
(* Selection *)

toggleSelectAll ==
  /\ Ready /\ NoModal
  /\ op' = IdleOp /\ ~loading /\ permissions.canDelete
  /\ selectedDocs' = IF Cardinality(selectedDocs) = Len(docs) THEN {} ELSE IdsOf(docs)
  /\ selectedDocs' # selectedDocs
  /\ UNCHANGED <<store, audit, currentUser, permissions, fields, cachedDocs,
                 cachedFilteredDocs, docs, query, form, loading, minted,
                 usersStore, rolesStore, started,
                 collectionName, pending, uploadFile, download, calc, peer>>

toggleSelectDoc(id) ==
  /\ Ready /\ NoModal
  /\ op' = IdleOp /\ ~loading /\ permissions.canDelete
  /\ id \in IdsOf(docs)
  /\ selectedDocs' = IF id \in selectedDocs THEN selectedDocs \ {id}
                     ELSE selectedDocs \cup {id}
  /\ UNCHANGED <<store, audit, currentUser, permissions, fields, cachedDocs,
                 cachedFilteredDocs, docs, query, form, loading, minted,
                 usersStore, rolesStore, started,
                 collectionName, pending, uploadFile, download, calc, peer>>

----------------------------------------------------------------------------
(* Update: handleEdit, the edit form, saveEdit *)

\* safeFields of handleEdit
SafeFields(flds, doc) ==
  [k \in FieldNames(flds) |->
     LET val == Get(doc, k)
     IN IF val.t \notin {"null", "undefined"} THEN ToStr(val)
        ELSE IF FieldByName(flds, k).type = "boolean" THEN FalseStr
        ELSE <<>>]

handleEdit(i) ==
  /\ Ready /\ NoModal
  /\ op' = IdleOp /\ ~loading
  /\ i \in 1..Len(docs)
  /\ permissions.canEdit
  /\ form' = [form EXCEPT !.hasEditing = TRUE, !.editingDoc = docs[i],
                          !.editFields = SafeFields(fields, docs[i]),
                          !.modalOpened = TRUE]
  /\ UNCHANGED <<store, audit, currentUser, permissions, fields, cachedDocs,
                 cachedFilteredDocs, docs, query, selectedDocs, loading, minted,
                 usersStore, rolesStore, started,
                 collectionName, pending, uploadFile, download, calc, peer>>

\* onChange of an input of the edit modal
EditFieldChange(name, raw) ==
  /\ Ready
  /\ op' = IdleOp
  /\ form.modalOpened /\ form.hasEditing
  /\ name \in FieldNames(fields)
  /\ form' = [form EXCEPT
       !.editFields = Spread(@, [k \in {name} |-> raw]),
       !.editFieldErrors =
          Spread(@, [k \in {name} |-> FieldError(FieldByName(fields, name), raw).message])]
  /\ form' # form
  /\ UNCHANGED <<store, audit, currentUser, permissions, fields, cachedDocs,
                 cachedFilteredDocs, docs, query, selectedDocs, loading, minted,
                 usersStore, rolesStore, started,
                 collectionName, pending, uploadFile, download, calc, peer>>

saveEdit_noGate ==
  /\ Ready
  /\ started' = started + 1
  /\ form.modalOpened /\ form.hasEditing
  /\ form' = [form EXCEPT !.editFieldErrors = Spread(@, FormErrors(fields, form.editFields))]
  /\ op' = Committing(
             [NewOp("update") EXCEPT !.target = DocId(form.editingDoc),
                                     !.before = form.editingDoc,
                                     !.payload = CoerceAll(fields, form.editFields)],
             <<Stage("validation", ~HasErrors(fields, form.editFields))>>)
  /\ UNCHANGED <<store, audit, currentUser, permissions, fields, cachedDocs,
                 cachedFilteredDocs, docs, query, selectedDocs, loading, minted,
                 usersStore, rolesStore,
                 collectionName, pending, uploadFile, download, calc, peer>>

\* saveEdit up to its first await: validation, then batch.commit()
saveEdit ==
  /\ Ready
  /\ started' = started + 1
  /\ form.modalOpened /\ form.hasEditing
  /\ form' = [form EXCEPT !.editFieldErrors = Spread(@, FormErrors(fields, form.editFields))]
  /\ op' = IF HasErrors(fields, form.editFields)
           THEN Returned([NewOp("update") EXCEPT
                            !.target = DocId(form.editingDoc),
                            !.before = form.editingDoc,
                            !.payload = CoerceAll(fields, form.editFields)],
                         "rejected", <<Stage("validation", FALSE)>>,
                         <<"Validation Error">>)
           ELSE Committing(
                  [NewOp("update") EXCEPT !.target = DocId(form.editingDoc),
                                          !.before = form.editingDoc,
                                          !.payload = CoerceAll(fields, form.editFields)],
                  <<Stage("validation", TRUE)>>)
  /\ UNCHANGED <<store, audit, currentUser, permissions, fields, cachedDocs,
                 cachedFilteredDocs, docs, query, selectedDocs, loading, minted,
                 usersStore, rolesStore,
                 collectionName, pending, uploadFile, download, calc, peer>>

----------------------------------------------------------------------------
(* Create: the add modal, addDocument *)

\* the initial values the effect on addModalOpened sets
InitialNewFields(flds) ==
  [k \in FieldNames(flds) |->
     IF FieldByName(flds, k).type = "boolean" THEN FalseStr ELSE <<>>]

\* the Add button, rendered for permissions.canEdit
OpenAddModal ==
  /\ Ready /\ NoModal
  /\ op' = IdleOp
  /\ permissions.canEdit
  /\ ~form.addModalOpened
  /\ form' = [form EXCEPT !.addModalOpened = TRUE,
                          !.newDocFields = InitialNewFields(fields)]
  /\ UNCHANGED <<store, audit, currentUser, permissions, fields, cachedDocs,
                 cachedFilteredDocs, docs, query, selectedDocs, loading, minted,
                 usersStore, rolesStore, started,
                 collectionName, pending, uploadFile, download, calc, peer>>

\* onChange of an input of the add modal
NewFieldChange(name, raw) ==
  /\ Ready
  /\ op' = IdleOp
  /\ form.addModalOpened
  /\ name \in FieldNames(fields)
  /\ form' = [form EXCEPT
       !.newDocFields = Spread(@, [k \in {name} |-> raw]),
       !.newFieldErrors =
          Spread(@, [k \in {name} |-> FieldError(FieldByName(fields, name), raw).message])]
  /\ form' # form
  /\ UNCHANGED <<store, audit, currentUser, permissions, fields, cachedDocs,
                 cachedFilteredDocs, docs, query, selectedDocs, loading, minted,
                 usersStore, rolesStore, started,
                 collectionName, pending, uploadFile, download, calc, peer>>

\* addDocument up to its first await: validation, a generated id, batch.commit()
addDocument ==
  /\ Ready
  /\ started' = started + 1
  /\ form.addModalOpened
  /\ form' = [form EXCEPT !.newFieldErrors = Spread(@, FormErrors(fields, form.newDocFields))]
  /\ IF HasErrors(fields, form.newDocFields)
     THEN /\ op' = Returned([NewOp("create") EXCEPT
                               !.payload = CoerceAll(fields, form.newDocFields)],
                            "rejected", <<Stage("validation", FALSE)>>,
                            <<"Validation Error">>)
          /\ minted' = minted
     ELSE /\ minted < MaxNewIds
          /\ minted' = minted + 1
          /\ op' = Committing(
                     [NewOp("create") EXCEPT !.target = NewId(minted + 1),
                                             !.payload = CoerceAll(fields, form.newDocFields)],
                     <<Stage("validation", TRUE)>>)
  /\ UNCHANGED <<store, audit, currentUser, permissions, fields, cachedDocs,
                 cachedFilteredDocs, docs, query, selectedDocs, loading,
                 usersStore, rolesStore,
                 collectionName, pending, uploadFile, download, calc, peer>>

----------------------------------------------------------------------------
(* Delete: handleDelete *)

\* handleDelete(id) of a displayed row up to its first await: the capability
\* check, the confirm dialog, batch.commit()
handleDelete(i, confirmed) ==
  /\ Ready
  /\ started' = started + 1 /\ NoModal /\ ~loading
  /\ i \in 1..Len(docs)
  /\ op' = IF ~permissions.canDelete
           THEN Returned(NewOp("delete"), "rejected", <<Stage("permission", FALSE)>>, <<>>)
           ELSE IF ~confirmed
           THEN Returned(NewOp("delete"), "cancelled", <<Stage("permission", TRUE)>>, <<>>)
           ELSE Committing(
                  [NewOp("delete") EXCEPT !.target = DocId(docs[i]), !.before = docs[i]],
                  <<Stage("permission", TRUE)>>)
  /\ UNCHANGED <<store, audit, currentUser, permissions, fields, cachedDocs,
                 cachedFilteredDocs, docs, query, selectedDocs, form, loading, minted,
                 usersStore, rolesStore,
                 collectionName, pending, uploadFile, download, calc, peer>>

----------------------------------------------------------------------------
(* Bulk edit: the bulk modal, handleBulkEdit *)

\* the Edit Selected button, rendered for permissions.canEdit and a selection
OpenBulkEdit ==
  /\ Ready /\ NoModal
  /\ op' = IdleOp
  /\ permissions.canEdit
  /\ selectedDocs # {}
  /\ ~form.bulkEditModalOpened
  /\ form' = [form EXCEPT !.bulkEditModalOpened = TRUE]
  /\ UNCHANGED <<store, audit, currentUser, permissions, fields, cachedDocs,
                 cachedFilteredDocs, docs, query, selectedDocs, loading, minted,
                 usersStore, rolesStore, started,
                 collectionName, pending, uploadFile, download, calc, peer>>

\* onChange of the field select of the bulk modal
SetBulkEditField(name) ==
  /\ Ready
  /\ op' = IdleOp
  /\ form.bulkEditModalOpened
  /\ name \in FieldNames(fields) \cup {""}
  /\ name # form.bulkEditField
  /\ form' = [form EXCEPT !.bulkEditField = name]
  /\ UNCHANGED <<store, audit, currentUser, permissions, fields, cachedDocs,
                 cachedFilteredDocs, docs, query, selectedDocs, loading, minted,
                 usersStore, rolesStore, started,
                 collectionName, pending, uploadFile, download, calc, peer>>

\* onChange of the value input of the bulk modal
SetBulkEditValue(raw) ==
  /\ Ready
  /\ op' = IdleOp
  /\ form.bulkEditModalOpened
  /\ form.bulkEditField # ""
  /\ form' = [form EXCEPT
       !.bulkEditValue = raw,
       !.editFieldErrors =
          Spread(@, [k \in {form.bulkEditField} |->
                       FieldError(FieldByName(fields, form.bulkEditField), raw).message])]
  /\ form' # form
  /\ UNCHANGED <<store, audit, currentUser, permissions, fields, cachedDocs,
                 cachedFilteredDocs, docs, query, selectedDocs, loading, minted,
                 usersStore, rolesStore, started,
                 collectionName, pending, uploadFile, download, calc, peer>>

\* handleBulkEdit up to its first await: the capability check, the early
\* returns, coercion, batch.commit()
handleBulkEdit ==
  /\ Ready
  /\ started' = started + 1
  /\ form.bulkEditModalOpened
  /\ op' = IF ~permissions.canEdit
           THEN Returned(NewOp("bulk"), "rejected", <<Stage("permission", FALSE)>>, <<>>)
           ELSE IF selectedDocs = {} \/ form.bulkEditField = ""
                   \/ form.bulkEditField \notin FieldNames(fields)
           THEN Returned(NewOp("bulk"), "cancelled", <<Stage("permission", TRUE)>>, <<>>)
           ELSE Committing(
                  [NewOp("bulk") EXCEPT
                     !.ids = selectedDocs,
                     !.field = form.bulkEditField,
                     !.value = Coerce(FieldByName(fields, form.bulkEditField),
                                      form.bulkEditValue)],
                  <<Stage("permission", TRUE)>>)
  /\ UNCHANGED <<store, audit, currentUser, permissions, fields, cachedDocs,
                 cachedFilteredDocs, docs, query, selectedDocs, form, loading, minted,
                 usersStore, rolesStore,
                 collectionName, pending, uploadFile, download, calc, peer>>

----------------------------------------------------------------------------
(* The awaited steps of an invocation: batch.commit(), addEntry, getDocs *)

\* whether the store can accept the batch: update fails on a missing document
BatchApplies(o, st) ==
  CASE o.kind = "update" -> o.target \in DOMAIN st
    [] o.kind = "bulk" -> o.ids \subseteq DOMAIN st
    [] OTHER -> TRUE

\* batch.set(docRef, docData) for each write, in order: the stored data of
\* the document is replaced
RECURSIVE ApplySets(_, _)
ApplySets(st, writes) ==
  IF writes = <<>> THEN st
  ELSE ApplySets((Head(writes).id :> Head(writes).data) @@ st, Tail(writes))

StoreAfter_changedOnly(o, st) ==
  IF o.kind = "update"
  THEN [st EXCEPT ![o.target] =
          Spread(@, [k \in {f \in DOMAIN o.payload : o.payload[f] # Get(o.before, f)} |->
                       o.payload[k]])]
  ELSE st

\* the collection after the batch of the invocation committed
StoreAfter(o, st) ==
  CASE o.kind = "update" -> [st EXCEPT ![o.target] = Spread(@, o.payload)]
    [] o.kind = "create" -> (o.target :> o.payload) @@ st
    [] o.kind = "delete" -> [i \in (DOMAIN st) \ {o.target} |-> st[i]]
    [] o.kind = "bulk" ->
         [i \in DOMAIN st |->
            IF i \in o.ids THEN Spread(st[i], [k \in {o.field} |-> o.value]) ELSE st[i]]
    [] o.kind = "import" -> ApplySets(st, o.writes)
    [] OTHER -> st

\* the documents handleBulkEdit finds in the displayed rows of its render
BulkFound(o) == {id \in o.ids : FindIndex(o.docs0, id) # 0}

\* the ids, in list order, of the entries the invocation sends to addEntry
AuditIds(o) ==
  IF o.kind = "bulk" THEN SelectSeq(IdOrder, LAMBDA id : id \in BulkFound(o))
  ELSE <<o.target>>

EntryFor(o, id) ==
  LET changes ==
        CASE o.kind = "update" -> UpdateChanges(o.before, o.payload)
          [] o.kind = "create" -> CreateChanges(o.payload)
          [] o.kind = "delete" -> DeleteChanges(o.before, id)
          [] OTHER -> BulkChanges(o.docs0[FindIndex(o.docs0, id)], o.field, o.value)
      action == CASE o.kind = "create" -> "create"
                  [] o.kind = "delete" -> "delete"
                  [] OTHER -> "update"
  IN AuditEntry(o.user, action, id, changes.before, changes.after)

\* the entries of the ids of `ok`, in list order
EntriesFor(o, ok) ==
  LET ids == SelectSeq(AuditIds(o), LAMBDA id : id \in ok)
  IN [k \in 1..Len(ids) |-> EntryFor(o, ids[k])]

\* saveEdit, addDocument and handleCSVUpload refetch the collection;
\* handleDelete and handleBulkEdit patch the displayed rows
Refetches(o) == o.kind \in {"update", "create", "import"}

\* the catch block of a handler
Caught(o, stage) ==
  [o EXCEPT !.pc = "done", !.outcome = "error",
            !.trace = Append(@, Stage(stage, FALSE)), !.notes = Append(@, "Error")]

\* the synchronous tail of handleDelete and handleBulkEdit
PatchedDocs(o, list) ==
  IF o.kind = "delete" THEN SelectSeq(list, LAMBDA d : DocId(d) # o.target)
  ELSE [k \in 1..Len(list) |->
          IF DocId(list[k]) \in o.ids
          THEN Spread(list[k], [key \in {o.field} |-> o.value]) ELSE list[k]]

\* what follows the audit step (or its omission): the refetch is issued, or
\* the rows are patched and the handler ends
AfterAudit(o) ==
  IF Refetches(o)
  THEN /\ op' = [o EXCEPT !.pc = "refresh"]
       /\ UNCHANGED <<docs, selectedDocs, form, peer>>
  ELSE /\ op' = [o EXCEPT !.pc = "done", !.outcome = "success",
                          !.trace = Append(@, Stage("refresh", TRUE)),
                          !.notes = Append(@, IF o.kind = "delete" THEN "Deleted"
                                              ELSE "Success")]
       /\ docs' = PatchedDocs(o, docs)
       /\ selectedDocs' = IF o.kind = "bulk" THEN {} ELSE selectedDocs
       /\ form' = IF o.kind = "bulk" THEN [form EXCEPT !.bulkEditModalOpened = FALSE]
                  ELSE form

\* batch.commit() resolved; the handler reads auth.currentUser and calls
\* addEntry, or goes on without an entry when there is no user;
\* handleCSVUpload has no audit step
CommitResolve ==
  /\ op.pc = "commit"
  /\ BatchApplies(op, store)
  /\ store' = StoreAfter(op, store)
  /\ LET o == [op EXCEPT !.user = currentUser,
                         !.trace = Append(@, Stage("write", TRUE))]
     IN IF currentUser # NoUser /\ op.kind # "import"
        THEN /\ op' = [o EXCEPT !.pc = "audit"]
             /\ UNCHANGED <<docs, selectedDocs, form, peer>>
        ELSE AfterAudit(o)
  /\ UNCHANGED <<audit, currentUser, permissions, fields, cachedDocs,
                 cachedFilteredDocs, query, loading, minted, usersStore, rolesStore, started,
                 collectionName, pending, uploadFile, download, calc, peer>>

CommitReject_retry ==
  /\ op.pc = "commit"
  /\ op' = IF op.attempts < 2 THEN [op EXCEPT !.attempts = @ + 1]
           ELSE Caught(op, "write")
  /\ UNCHANGED <<store, audit, currentUser, permissions, fields, cachedDocs,
                 cachedFilteredDocs, docs, query, selectedDocs, form, loading,
                 minted, usersStore, rolesStore, started,
                 collectionName, pending, uploadFile, download, calc, peer>>

\* batch.commit() rejected
CommitReject ==
  /\ op.pc = "commit"
  /\ op' = Caught(op, "write")
  /\ UNCHANGED <<store, audit, currentUser, permissions, fields, cachedDocs,
                 cachedFilteredDocs, docs, query, selectedDocs, form, loading,
                 minted, usersStore, rolesStore, started,
                 collectionName, pending, uploadFile, download, calc, peer>>

\* every addEntry of the invocation resolved
AuditResolve ==
  /\ op.pc = "audit"
  /\ audit' = audit \o EntriesFor(op, Ids)
  /\ AfterAudit([op EXCEPT !.trace = Append(@, Stage("audit", TRUE))])
  /\ UNCHANGED <<store, currentUser, permissions, fields, cachedDocs,
                 cachedFilteredDocs, query, loading, minted, usersStore, rolesStore, started,
                 collectionName, pending, uploadFile, download, calc, peer>>

\* an addEntry of the invocation rejected; those of `ok` were appended
AuditReject(ok) ==
  /\ op.pc = "audit"
  /\ AuditIds(op) # <<>>
  /\ ok \subseteq {AuditIds(op)[k] : k \in 1..Len(AuditIds(op))}
  /\ ok # {AuditIds(op)[k] : k \in 1..Len(AuditIds(op))}
  /\ audit' = audit \o EntriesFor(op, ok)
  /\ op' = Caught(op, "audit")
  /\ UNCHANGED <<store, currentUser, permissions, fields, cachedDocs,
                 cachedFilteredDocs, docs, query, selectedDocs, form, loading,
                 minted, usersStore, rolesStore, started,
                 collectionName, pending, uploadFile, download, calc, peer>>

\* the getDocs of saveEdit / addDocument resolved
RefreshResolve ==
  /\ op.pc = "refresh"
  /\ docs' = Snapshot(store)
  /\ form' = CASE op.kind = "update" ->
                  [form EXCEPT !.modalOpened = FALSE, !.editFieldErrors = NoFormErrors]
               [] op.kind = "import" -> form
               [] OTHER ->
                  [form EXCEPT !.addModalOpened = FALSE, !.newFieldErrors = NoFormErrors]
  /\ uploadFile' = IF op.kind = "import" THEN NoFile ELSE uploadFile
  /\ op' = [op EXCEPT !.pc = "done", !.outcome = "success",
                      !.trace = Append(@, Stage("refresh", TRUE)),
                      !.notes = Append(@, IF op.kind = "import"
                                          THEN "Upload Complete" ELSE "Success")]
  /\ UNCHANGED <<store, audit, currentUser, permissions, fields, cachedDocs,
                 cachedFilteredDocs, query, selectedDocs, loading, minted,
                 usersStore, rolesStore, started,
                 collectionName, pending, download, calc, peer>>

\* the getDocs of saveEdit / addDocument / handleCSVUpload rejected
RefreshReject ==
  /\ op.pc = "refresh"
  /\ op' = Caught(op, "refresh")
  /\ UNCHANGED <<store, audit, currentUser, permissions, fields, cachedDocs,
                 cachedFilteredDocs, docs, query, selectedDocs, form, loading,
                 minted, usersStore, rolesStore, started,
                 collectionName, pending, uploadFile, download, calc, peer>>

----------------------------------------------------------------------------
(* The mutation specification *)

Next ==
  \/ \E user \in Users \cup {NoUser} : AuthStateChanged(user, FALSE)
  \/ fetchAllDocsResolve
  \/ fetchAllDocsReject
  \/ \E term \in SearchTerms : setSearch(term)
  \/ toggleSelectAll
  \/ \E id \in Ids : toggleSelectDoc(id)
  \/ \E i \in 1..Len(IdOrder) : handleEdit(i)
  \/ \E name \in FieldNames(fields) : \E raw \in RawInputs : EditFieldChange(name, raw)
  \/ saveEdit
  \/ OpenAddModal
  \/ \E name \in FieldNames(fields) : \E raw \in RawInputs : NewFieldChange(name, raw)
  \/ addDocument
  \/ \E i \in 1..Len(IdOrder) : \E confirmed \in BOOLEAN : handleDelete(i, confirmed)
  \/ OpenBulkEdit
  \/ \E name \in FieldNames(fields) \cup {""} : SetBulkEditField(name)
  \/ \E raw \in RawInputs : SetBulkEditValue(raw)
  \/ handleBulkEdit
  \/ CommitResolve
  \/ CommitReject
  \/ AuditResolve
  \/ \E ok \in SUBSET Ids : AuditReject(ok)
  \/ RefreshResolve
  \/ RefreshReject

Spec == Init /\ [][Next]_vars

----------------------------------------------------------------------------
(* The permission specification: sign-ins resolved against any stored
   "admin" role document, and the role editor of the settings page *)

PermNames == {"canView", "canEdit", "canDelete", "canManageRoles"}

\* PermissionGate: whether the gate renders its children
PermissionGate(perms, isLoading, permission, not) ==
  IF isLoading THEN FALSE
  ELSE IF ~perms.isNull /\ perms.role = "admin" THEN TRUE
  ELSE LET hasPermission == IF perms.isNull THEN FALSE ELSE perms[permission]
       IN IF not THEN ~hasPermission ELSE hasPermission

\* migrateRoleData: a legacy document read as a role with a permissions object
migrateRoleData(data) ==
  RoleDoc("new", data.canView, data.canEdit, data.canDelete, data.canManageRoles)

\* what the roles store can hold for "admin"
AdminDocs ==
  {RoleDoc(kind, v, e, d, m) :
     kind \in {"new", "legacy"}, v \in BOOLEAN, e \in BOOLEAN, d \in BOOLEAN,
     m \in BOOLEAN}

RoleStores == {InitialRoles} \cup {("admin" :> d) @@ InitialRoles : d \in AdminDocs}

\* a user without a users document whose email address contains "admin"
Eve == [uid |-> "eve", email |-> <<"a", "d", "m", "i", "n", "@", "x", ".", "y">>]

PermUsers == {Alice, Bob, Root, Eve}

InitPerm ==
  /\ store = InitialStore
  /\ audit = <<>>
  /\ currentUser = NoUser
  /\ permissions = NullPermissions
  /\ fields = PriceSchema
  /\ cachedDocs = <<>>
  /\ cachedFilteredDocs = <<>>
  /\ docs = <<>>
  /\ query = InitialQuery
  /\ selectedDocs = {}
  /\ form = InitialForm
  /\ loading = TRUE
  /\ minted = 0
  /\ usersStore = InitialUsers
  /\ rolesStore \in RoleStores
  /\ started = 0
  /\ op = IdleOp
  /\ collectionName = CollectionName
  /\ pending = {}
  /\ uploadFile = NoFile
  /\ download = NoDownload
  /\ peer = NoPeer
  /\ calc = NoCall

\* togglePermission of useRoles, behind the canManageRoles gate of the
\* settings page: RoleService.togglePermission writes the migrated role with
\* the permission negated
togglePermission(role, perm) ==
  /\ currentUser # NoUser
  /\ PermissionGate(permissions, FALSE, "canManageRoles", FALSE)
  /\ role \in DOMAIN rolesStore
  /\ rolesStore' =
       [rolesStore EXCEPT ![role] =
          [migrateRoleData(@) EXCEPT ![perm] = ~migrateRoleData(rolesStore[role])[perm]]]
  /\ UNCHANGED <<store, audit, currentUser, permissions, fields, cachedDocs,
                 cachedFilteredDocs, docs, query, selectedDocs, form, loading,
                 minted, usersStore, op, started,
                 collectionName, pending, uploadFile, download, calc, peer>>

NextPerm ==
  \/ \E user \in PermUsers \cup {NoUser} : \E readFails \in BOOLEAN :
       AuthStateChanged(user, readFails)
  \/ \E perm \in PermNames : togglePermission("admin", perm)

SpecPerm == InitPerm /\ [][NextPerm]_vars

----------------------------------------------------------------------------
(* The collection-switch specification: the route parameter changes while
   the requests of the page are in flight *)

Collections == {"items", "tasks", "empty"}

TasksStore == NewId(1) :> [done |-> Bool(TRUE)]

EmptyStore == [i \in {} |-> EmptyObj]

\* the documents of each collection of the remote store
StoreOf(c) ==
  CASE c = "items" -> InitialStore
    [] c = "tasks" -> TasksStore
    [] OTHER -> EmptyStore

\* config/collections/items/<name>: the schema documents; the collection
\* "empty" has none
SchemaDocs ==
  [c \in {"items", "tasks"} |->
     IF c = "items" THEN PriceSchema ELSE <<FieldDef("done", "boolean", NoRule)>>]

\* a request the page sent for a collection: kind "docs" is the getDocs of
\* fetchAllDocs, kind "fields" the getDoc of fetchFields
Request(kind, c) == [kind |-> kind, coll |-> c]

\* the effects on collectionName: fetchFields and fetchAllDocs are called
RequestsFor(c) == {Request("docs", c), Request("fields", c)}

\* the page has mounted on "items" for a signed-in editor; both requests of
\* the mount are in flight
InitSwitch ==
  /\ store = InitialStore
  /\ audit = <<>>
  /\ currentUser = Alice
  /\ permissions = ResolvePermissions(Alice, InitialUsers, InitialRoles, FALSE)
  /\ fields = <<>>
  /\ cachedDocs = <<>>
  /\ cachedFilteredDocs = <<>>
  /\ docs = <<>>
  /\ query = InitialQuery
  /\ selectedDocs = {}
  /\ form = InitialForm
  /\ loading = TRUE
  /\ minted = 0
  /\ usersStore = InitialUsers
  /\ rolesStore = InitialRoles
  /\ started = 0
  /\ op = IdleOp
  /\ collectionName = CollectionName
  /\ pending = RequestsFor(CollectionName)
  /\ uploadFile = NoFile
  /\ download = NoDownload
  /\ peer = NoPeer
  /\ calc = NoCall

\* navigation to another collection: the component stays mounted, its state
\* is kept, and the effects on collectionName send the two requests
SwitchCollection(c) ==
  /\ c # collectionName
  /\ collectionName' = c
  /\ loading' = TRUE
  /\ pending' = pending \cup RequestsFor(c)
  /\ UNCHANGED <<store, audit, currentUser, permissions, fields, cachedDocs,
                 cachedFilteredDocs, docs, query, selectedDocs, form, minted,
                 usersStore, rolesStore, started, op, uploadFile, download, calc, peer>>

\* fetchAllDocs: the getDocs of a request resolved
DocsResponse(r) ==
  /\ r \in pending /\ r.kind = "docs"
  /\ pending' = pending \ {r}
  /\ cachedDocs' = Snapshot(StoreOf(r.coll))
  /\ loading' = FALSE
  /\ Refiltered(Snapshot(StoreOf(r.coll)), query)
  /\ UNCHANGED <<store, audit, currentUser, permissions, fields, query,
                 selectedDocs, form, minted, usersStore, rolesStore, started, op,
                 collectionName, uploadFile, download, calc, peer>>

\* fetchAllDocs: the getDocs of a request threw
DocsFailure(r) ==
  /\ r \in pending /\ r.kind = "docs"
  /\ pending' = pending \ {r}
  /\ loading' = FALSE
  /\ UNCHANGED <<store, audit, currentUser, permissions, fields, cachedDocs,
                 cachedFilteredDocs, docs, query, selectedDocs, form, minted,
                 usersStore, rolesStore, started, op, collectionName,
                 uploadFile, download, calc, peer>>

\* fetchFields: the getDoc of a request resolved; a schema document that
\* exists sets the fields, and processFilters runs again for the new fields
FieldsResponse(r) ==
  /\ r \in pending /\ r.kind = "fields"
  /\ pending' = pending \ {r}
  /\ fields' = IF r.coll \in DOMAIN SchemaDocs THEN SchemaDocs[r.coll] ELSE fields
  /\ cachedFilteredDocs' = processFilters(cachedDocs, cachedFilteredDocs, fields', query)
  /\ docs' = IF Len(cachedDocs) = 0 THEN docs
             ELSE DisplayOf(cachedFilteredDocs', fields', query)
  /\ UNCHANGED <<store, audit, currentUser, permissions, cachedDocs, query,
                 selectedDocs, form, loading, minted, usersStore, rolesStore,
                 started, op, collectionName, uploadFile, download, calc, peer>>

\* fetchFields: the getDoc of a request threw
FieldsFailure(r) ==
  /\ r \in pending /\ r.kind = "fields"
  /\ pending' = pending \ {r}
  /\ UNCHANGED <<store, audit, currentUser, permissions, fields, cachedDocs,
                 cachedFilteredDocs, docs, query, selectedDocs, form, loading,
                 minted, usersStore, rolesStore, started, op, collectionName,
                 uploadFile, download, calc, peer>>

Requests == {Request(kind, c) : kind \in {"docs", "fields"}, c \in Collections}

NextSwitch ==
  \/ \E c \in Collections : SwitchCollection(c)
  \/ \E r \in Requests : DocsResponse(r)
  \/ \E r \in Requests : DocsFailure(r)
  \/ \E r \in Requests : FieldsResponse(r)
  \/ \E r \in Requests : FieldsFailure(r)
  \/ \E term \in SearchTerms : setSearch(term)

SpecSwitch == InitSwitch /\ [][NextSwitch]_vars

----------------------------------------------------------------------------
(* The validation specification: the library functions applied to values,
   rules and documents; the repository holds two copies of the library *)

ValidationModules == {"part_005", "lib"}

\* the values passed to validateField
Values ==
  {Null, Undefined, Str(<<>>), Str(<<"a", "b", "c">>),
   Str(<<"a", "b", "c", "d", "e", "f", "g">>), Str(<<"a", "@", "b", ".", "c">>),
   Str(<<"x", ":", "y", "z", "w">>), Str(<<"1", "2">>),
   Str(<<"1", "2", "3", "4", "5", "6", "7", "8", "9", "0", "1">>),
   Num(0), Num(4), Num(5), Num(7), Num(10), Num(11), Bool(FALSE), Bool(TRUE)}

\* the rules passed to validateField: min 5 and max 10 set or unset, each
\* pattern of the model, every combination of the flags
Rules ==
  {NoRule} \cup
  {Rule(required, hasMin, 5, hasMax, 10, pattern, email, url) :
     required \in BOOLEAN, hasMin \in BOOLEAN, hasMax \in BOOLEAN,
     pattern \in {"", "^[0-9]+$", "("}, email \in BOOLEAN, url \in BOOLEAN}

\* the schemas and documents passed to validateDocument
DocSchema ==
  <<FieldDef("a", "number", Rule(FALSE, TRUE, 5, TRUE, 10, "", FALSE, FALSE)),
    FieldDef("b", "text", Rule(TRUE, FALSE, 0, FALSE, 0, "", FALSE, FALSE)),
    FieldDef("c", "text", Rule(FALSE, FALSE, 0, FALSE, 0, "", TRUE, FALSE))>>

Schemas == {SubSeq(DocSchema, i, j) : i \in 1..4, j \in 0..3}

DocValues ==
  [a |-> {Num(4), Num(7)}, b |-> {Str(<<>>), Str(<<"a", "b", "c">>)},
   c |-> {Str(<<"a", "b", "c">>), Str(<<"a", "@", "b", ".", "c">>)}]

Documents ==
  {EmptyObj} \cup [{"a", "b", "c"} -> UNION {DocValues[k] : k \in {"a", "b", "c"}}]

\* the calls of a run: the arguments are drawn here, the result is pending
FieldCalls ==
  {[fn |-> "validateField", module |-> module, value |-> value,
    validation |-> validation, done |-> FALSE, result |-> NoError] :
     module \in ValidationModules, value \in Values, validation \in Rules}

DocumentCalls ==
  {[fn |-> "validateDocument", module |-> module, doc |-> doc, flds |-> flds,
    done |-> FALSE, result |-> [isValid |-> TRUE, errors |-> <<>>]] :
     module \in ValidationModules, doc \in Documents, flds \in Schemas}

InitVal ==
  /\ store = InitialStore
  /\ audit = <<>>
  /\ currentUser = NoUser
  /\ permissions = NullPermissions
  /\ fields = PriceSchema
  /\ cachedDocs = <<>>
  /\ cachedFilteredDocs = <<>>
  /\ docs = <<>>
  /\ query = InitialQuery
  /\ selectedDocs = {}
  /\ form = InitialForm
  /\ loading = TRUE
  /\ minted = 0
  /\ usersStore = InitialUsers
  /\ rolesStore = InitialRoles
  /\ started = 0
  /\ op = IdleOp
  /\ collectionName = CollectionName
  /\ pending = {}
  /\ uploadFile = NoFile
  /\ download = NoDownload
  /\ peer = NoPeer
  /\ calc \in FieldCalls \cup DocumentCalls

\* the call validateField("f", value, validation) of one copy of the library
CallValidateField ==
  /\ calc.fn = "validateField" /\ ~calc.done
  /\ calc' = [calc EXCEPT
       !.done = TRUE,
       !.result = IF calc.module = "lib"
                  THEN validateFieldLib("f", calc.value, calc.validation)
                  ELSE validateField("f", calc.value, calc.validation)]
  /\ UNCHANGED <<store, audit, currentUser, permissions, fields, cachedDocs,
                 cachedFilteredDocs, docs, query, selectedDocs, form, loading,
                 minted, usersStore, rolesStore, started, op, collectionName,
                 pending, uploadFile, download, peer>>

\* the call validateDocument(doc, flds) of one copy of the library
CallValidateDocument ==
  /\ calc.fn = "validateDocument" /\ ~calc.done
  /\ calc' = [calc EXCEPT
       !.done = TRUE,
       !.result = IF calc.module = "lib" THEN validateDocumentLib(calc.doc, calc.flds)
                  ELSE validateDocument(calc.doc, calc.flds)]
  /\ UNCHANGED <<store, audit, currentUser, permissions, fields, cachedDocs,
                 cachedFilteredDocs, docs, query, selectedDocs, form, loading,
                 minted, usersStore, rolesStore, started, op, collectionName,
                 pending, uploadFile, download, peer>>

NextVal ==
  \/ CallValidateField
  \/ CallValidateDocument

SpecVal == InitVal /\ [][NextVal]_vars

----------------------------------------------------------------------------
(* CSV export and import *)

Comma == ","
Quote == "\""
Newline == "\n"

\* the white space String.prototype.trim removes
WhiteSpace == {" ", "\t", "\r", "\n"}

\* cs.split(sep)
RECURSIVE Split(_, _)
Split(cs, sep) ==
  LET at == {i \in 1..Len(cs) : cs[i] = sep}
  IN IF at = {} THEN <<cs>>
     ELSE LET i == CHOOSE k \in at : \A j \in at : k <= j
          IN <<SubSeq(cs, 1, i - 1)>> \o Split(SubSeq(cs, i + 1, Len(cs)), sep)

\* parts.join(sep)
RECURSIVE JoinWith(_, _)
JoinWith(parts, sep) ==
  IF parts = <<>> THEN <<>>
  ELSE IF Len(parts) = 1 THEN parts[1]
  ELSE parts[1] \o <<sep>> \o JoinWith(Tail(parts), sep)

\* cs.trim()
RECURSIVE Trim(_)
Trim(cs) ==
  IF cs = <<>> THEN cs
  ELSE IF Head(cs) \in WhiteSpace THEN Trim(Tail(cs))
  ELSE IF cs[Len(cs)] \in WhiteSpace THEN Trim(SubSeq(cs, 1, Len(cs) - 1))
  ELSE cs

\* cs.replace(/^"|"$/g, ''): one quote at the start and one at the end go
StripQuotes(cs) ==
  LET a == IF cs # <<>> /\ Head(cs) = Quote THEN Tail(cs) ELSE cs
  IN IF a # <<>> /\ a[Len(a)] = Quote THEN SubSeq(a, 1, Len(a) - 1) ELSE a

\* cs.replace(/"/g, '""')
RECURSIVE DoubleQuotes(_)
DoubleQuotes(cs) ==
  IF cs = <<>> THEN <<>>
  ELSE (IF Head(cs) = Quote THEN <<Quote, Quote>> ELSE <<Head(cs)>>)
       \o DoubleQuotes(Tail(cs))

\* text.split('\n').map(row => row.split(',').map(cell =>
\*   cell.trim().replace(/^"|"$/g, '')))
ParseCsv(text) ==
  LET lines == Split(text, Newline)
  IN [i \in 1..Len(lines) |->
        LET cells == Split(lines[i], Comma)
        IN [j \in 1..Len(cells) |-> StripQuotes(Trim(cells[j]))]]

\* the characters of the field names and of "id"
Spelling(name) ==
  CASE name = "id" -> <<"i", "d">>
    [] name = "price" -> <<"p", "r", "i", "c", "e">>
    [] name = "note" -> <<"n", "o", "t", "e">>

\* ['id', ...fields.map(f => f.name)]
CsvHeaders(flds) ==
  <<Spelling("id")>> \o [i \in 1..Len(flds) |-> Spelling(flds[i].name)]

\* the cell downloadCSV writes for doc[f.name], as join(',') prints it
CsvCell(value) ==
  IF value.t = "string"
     /\ \E i \in 1..Len(value.s) : value.s[i] \in {Comma, Quote, Newline}
  THEN <<Quote>> \o DoubleQuotes(value.s) \o <<Quote>>
  ELSE IF value.t \in {"null", "undefined"} THEN <<>>
  ELSE ToStr(value)

\* csvContent of downloadCSV
CsvContent(list, flds) ==
  JoinWith(
    <<JoinWith(CsvHeaders(flds), Comma)>>
    \o [k \in 1..Len(list) |->
          JoinWith(<<DocId(list[k])>>
                   \o [i \in 1..Len(flds) |-> CsvCell(Get(list[k], flds[i].name))],
                   Comma)],
    Newline)

\* the Export CSV button with rows on the page; without rows the handler
\* only notifies
downloadCSV ==
  /\ Ready /\ NoModal
  /\ Len(docs) # 0
  /\ ~download.made
  /\ op' = IdleOp
  /\ download' = [made |-> TRUE, text |-> CsvContent(docs, fields), rows |-> docs]
  /\ UNCHANGED <<store, audit, currentUser, permissions, fields, cachedDocs,
                 cachedFilteredDocs, docs, query, selectedDocs, form, loading,
                 minted, usersStore, rolesStore, started,
                 collectionName, pending, uploadFile, calc, peer>>

\* expectedHeaders.every((h, i) => headers[i] === h)
HeadersMatch(headers, expectedHeaders) ==
  \A i \in 1..Len(expectedHeaders) :
    i <= Len(headers) /\ headers[i] = expectedHeaders[i]

\* row[index + 1] || ''
CellOf(row, index) == IF index + 2 <= Len(row) THEN row[index + 2] ELSE <<>>

\* docData of one row
RowData(row, flds) ==
  [k \in FieldNames(flds) |->
     LET index == (CHOOSE i \in 1..Len(flds) : flds[i].name = k) - 1
     IN Coerce(flds[index + 1], CellOf(row, index))]

\* what the loop of handleCSVUpload does with one row
RowOutcome(row, headers, flds) ==
  IF Len(row) # Len(headers) THEN "skipped"
  ELSE IF ~validateDocument(RowData(row, flds), flds).isValid THEN "failed"
  ELSE IF row[1] = <<>> THEN "failed"
  ELSE "written"

\* the rows after the header
DataRows(rows) == SubSeq(rows, 2, Len(rows))

\* the batch.set calls of the loop, in row order
RECURSIVE BatchSets(_, _, _)
BatchSets(dataRows, headers, flds) ==
  IF dataRows = <<>> THEN <<>>
  ELSE (IF RowOutcome(Head(dataRows), headers, flds) = "written"
        THEN <<[id |-> Head(dataRows)[1], data |-> RowData(Head(dataRows), flds)]>>
        ELSE <<>>)
       \o BatchSets(Tail(dataRows), headers, flds)

CountOutcome(dataRows, headers, flds, outcome) ==
  Cardinality({i \in 1..Len(dataRows) :
                 RowOutcome(dataRows[i], headers, flds) = outcome})

\* the file input of the upload modal, which the Import CSV button opens for
\* a user with canEdit
setUploadFile(text) ==
  /\ Ready /\ NoModal
  /\ permissions.canEdit
  /\ ~uploadFile.chosen
  /\ op' = IdleOp
  /\ uploadFile' = [chosen |-> TRUE, text |-> text]
  /\ UNCHANGED <<store, audit, currentUser, permissions, fields, cachedDocs,
                 cachedFilteredDocs, docs, query, selectedDocs, form, loading,
                 minted, usersStore, rolesStore, started,
                 collectionName, pending, download, calc, peer>>

\* handleCSVUpload up to batch.commit(): the header check throws, or the loop
\* fills the batch and counts
handleCSVUpload ==
  /\ Ready /\ NoModal
  /\ uploadFile.chosen
  /\ started' = started + 1
  /\ LET rows == ParseCsv(uploadFile.text)
         headers == rows[1]
         o == [NewOp("import") EXCEPT !.file = uploadFile.text, !.header = headers,
                                      !.rows = DataRows(rows)]
     IN IF ~HeadersMatch(headers, CsvHeaders(fields))
        THEN op' = Returned(o, "error", <<Stage("validation", FALSE)>>, <<"Error">>)
        ELSE op' = Committing(
                     [o EXCEPT !.writes = BatchSets(DataRows(rows), headers, fields),
                               !.successCount =
                                  CountOutcome(DataRows(rows), headers, fields, "written"),
                               !.errorCount =
                                  CountOutcome(DataRows(rows), headers, fields, "failed")],
                     <<Stage("validation", TRUE)>>)
  /\ UNCHANGED <<store, audit, currentUser, permissions, fields, cachedDocs,
                 cachedFilteredDocs, docs, query, selectedDocs, form, loading,
                 minted, usersStore, rolesStore,
                 collectionName, pending, uploadFile, download, calc, peer>>

NoteSchema == <<FieldDef("note", "text", NoRule)>>

\* the text values of the exported documents
Notes ==
  {<<"a", "b">>, <<"a", Comma, "b">>, <<"a", Quote, "b">>, <<"a", Newline, "b">>}

\* the collections exported and imported
CsvStores ==
  {InitialStore}
  \cup {(Id1 :> [note |-> Str(n)]) @@ (Id2 :> [price |-> Num(20), note |-> Str(<<"x">>)])
          : n \in Notes}

CsvLine(cells) == JoinWith(cells, Comma)

CsvText(lines) == JoinWith(lines, Newline)

\* the files a user uploads besides an exported one
CsvFiles ==
  LET id == Spelling("id")
      price == Spelling("price")
  IN {CsvText(<<CsvLine(<<id, price>>), CsvLine(<<Id2, <<"3", "0">>>>)>>),
      CsvText(<<CsvLine(<<id, price, <<"e", "x">>>>),
                CsvLine(<<NewId(1), <<"5">>, <<"z">>>>)>>),
      CsvText(<<CsvLine(<<id, price>>), CsvLine(<<Id1, <<"5">>>>), CsvLine(<<Id2>>)>>),
      CsvText(<<CsvLine(<<price, id>>), CsvLine(<<<<"5">>, Id1>>)>>),
      CsvText(<<CsvLine(<<id, price>>), CsvLine(<<Id1, <<"-", "5">>>>),
                CsvLine(<<<<>>, <<"6">>>>), CsvLine(<<Id2, <<"7">>>>)>>)}

InitCsv ==
  /\ store \in CsvStores
  /\ audit = <<>>
  /\ currentUser = Alice
  /\ permissions = ResolvePermissions(Alice, InitialUsers, InitialRoles, FALSE)
  /\ fields \in {PriceSchema, NoteSchema}
  /\ cachedDocs = Snapshot(store)
  /\ cachedFilteredDocs = Snapshot(store)
  /\ docs = Snapshot(store)
  /\ query = InitialQuery
  /\ selectedDocs = {}
  /\ form = InitialForm
  /\ loading = FALSE
  /\ minted = 0
  /\ usersStore = InitialUsers
  /\ rolesStore = InitialRoles
  /\ started = 0
  /\ op = IdleOp
  /\ collectionName = CollectionName
  /\ pending = {}
  /\ uploadFile = NoFile
  /\ download = NoDownload
  /\ peer = NoPeer
  /\ calc = NoCall

NextCsv ==
  \/ downloadCSV
  \/ \E text \in CsvFiles \cup (IF download.made THEN {download.text} ELSE {}) :
       setUploadFile(text)
  \/ handleCSVUpload
  \/ CommitResolve
  \/ CommitReject
  \/ RefreshResolve
  \/ RefreshReject

SpecCsv == InitCsv /\ [][NextCsv]_vars

----------------------------------------------------------------------------
(* The form specification: the coercion of saveEdit / addDocument /
   handleBulkEdit and the validation gate of saveEdit / addDocument applied
   to schemas and raw form strings *)

\* the page at rest; the specifications of single function calls start here
IdlePage ==
  /\ store = InitialStore
  /\ audit = <<>>
  /\ currentUser = NoUser
  /\ permissions = NullPermissions
  /\ fields = PriceSchema
  /\ cachedDocs = <<>>
  /\ cachedFilteredDocs = <<>>
  /\ docs = <<>>
  /\ query = InitialQuery
  /\ selectedDocs = {}
  /\ form = InitialForm
  /\ loading = TRUE
  /\ minted = 0
  /\ usersStore = InitialUsers
  /\ rolesStore = InitialRoles
  /\ started = 0
  /\ op = IdleOp
  /\ collectionName = CollectionName
  /\ pending = {}
  /\ uploadFile = NoFile
  /\ download = NoDownload
  /\ peer = NoPeer

FieldTypes == {"number", "boolean", "text", "select"}

\* the strings an input of the edit form can hold
FormStrings ==
  {<<>>, TrueStr, FalseStr, <<"T", "r", "u", "e">>, <<"7">>, <<"1", "2">>,
   <<"-", "5">>, <<" ", "3">>, <<"1", "2", "a", "b">>, <<"a", "b", "c">>,
   <<"a", "@", "b", ".", "c">>, <<"0">>}

\* the validation rules of the form schemas
FormRules ==
  {NoRule,
   Rule(TRUE, FALSE, 0, FALSE, 0, "", FALSE, FALSE),
   Rule(FALSE, TRUE, 5, TRUE, 10, "", FALSE, FALSE),
   Rule(FALSE, FALSE, 0, FALSE, 0, "^[0-9]+$", FALSE, FALSE),
   Rule(FALSE, FALSE, 0, FALSE, 0, "", TRUE, FALSE)}

\* one-field schemas, and two-field schemas with a plain text field behind
FormSchemas ==
  {<<FieldDef("a", type, rule)>> : type \in FieldTypes, rule \in FormRules}
  \cup {<<FieldDef("a", type, NoRule),
          FieldDef("b", "text", Rule(TRUE, FALSE, 0, FALSE, 0, "", FALSE, FALSE))>> :
          type \in FieldTypes}

\* editFields: a string for each declared field
FormsOf(flds) == [FieldNames(flds) -> FormStrings]

CoerceCalls ==
  {[fn |-> "Coerce", f |-> FieldDef("a", type, NoRule), val |-> val,
    done |-> FALSE, result |-> Null] : type \in FieldTypes, val \in FormStrings}

GateCalls ==
  {[fn |-> "gate", flds |-> flds, editFields |-> editFields, done |-> FALSE,
    hasErrors |-> FALSE, updated |-> EmptyObj] :
     flds \in {s \in FormSchemas : Len(s) = 1}, editFields \in FormsOf(<<FieldDef("a", "text", NoRule)>>)}
  \cup
  {[fn |-> "gate", flds |-> flds, editFields |-> editFields, done |-> FALSE,
    hasErrors |-> FALSE, updated |-> EmptyObj] :
     flds \in {s \in FormSchemas : Len(s) = 2},
     editFields \in [{"a", "b"} -> {<<>>, TrueStr, <<"7">>}]}

InitForm == IdlePage /\ calc \in CoerceCalls \cup GateCalls

\* updated[f.name] of saveEdit, parsed[f.name] of addDocument, parsedValue of
\* handleBulkEdit
CallCoerce ==
  /\ calc.fn = "Coerce" /\ ~calc.done
  /\ calc' = [calc EXCEPT !.done = TRUE, !.result = Coerce(calc.f, calc.val)]
  /\ UNCHANGED <<store, audit, currentUser, permissions, fields, cachedDocs,
                 cachedFilteredDocs, docs, query, selectedDocs, form, loading,
                 minted, usersStore, rolesStore, started, op,
                 collectionName, pending, uploadFile, download, peer>>

\* the forEach of saveEdit / addDocument: hasErrors and the coerced document
CallGate ==
  /\ calc.fn = "gate" /\ ~calc.done
  /\ calc' = [calc EXCEPT !.done = TRUE,
                          !.hasErrors = HasErrors(calc.flds, calc.editFields),
                          !.updated = CoerceAll(calc.flds, calc.editFields)]
  /\ UNCHANGED <<store, audit, currentUser, permissions, fields, cachedDocs,
                 cachedFilteredDocs, docs, query, selectedDocs, form, loading,
                 minted, usersStore, rolesStore, started, op,
                 collectionName, pending, uploadFile, download, peer>>

NextForm == CallCoerce \/ CallGate

SpecForm == InitForm /\ [][NextForm]_vars

----------------------------------------------------------------------------
(* The query specification: search, advanced filters, sort and page changes
   over a loaded cache *)

\* the filter controls' setAdvancedFilters(prev => ({ ...prev, [name]: v }));
\* the debounced copy is what processFilters reads
setAdvancedFilter(fieldName, value) ==
  /\ Ready /\ NoModal
  /\ op' = IdleOp
  /\ Get(query.debouncedFilters, fieldName) # value
  /\ query' = [query EXCEPT
       !.debouncedFilters = Spread(@, [k \in {fieldName} |-> value])]
  /\ Refiltered(cachedDocs, query')
  /\ UNCHANGED <<store, audit, currentUser, permissions, fields, cachedDocs,
                 selectedDocs, form, loading, minted, usersStore, rolesStore, started,
                 collectionName, pending, uploadFile, download, calc, peer>>

\* the clear icon of a filter control: the value becomes '', and the
\* operator of a number filter '='
clearAdvancedFilter(fieldName) ==
  /\ Ready /\ NoModal
  /\ op' = IdleOp
  /\ Get(query.debouncedFilters, fieldName) \notin {Undefined, Str(<<>>)}
  /\ query' = [query EXCEPT
       !.debouncedFilters = Spread(@, [k \in {fieldName} |-> Str(<<>>)]),
       !.numberOperators =
          IF FieldByName(fields, fieldName).type = "number"
          THEN Spread(@, [k \in {fieldName} |-> "="]) ELSE @]
  /\ Refiltered(cachedDocs, query')
  /\ UNCHANGED <<store, audit, currentUser, permissions, fields, cachedDocs,
                 selectedDocs, form, loading, minted, usersStore, rolesStore, started,
                 collectionName, pending, uploadFile, download, calc, peer>>

\* the operator Select of a number filter
setNumberOperator(fieldName, operator) ==
  /\ Ready /\ NoModal
  /\ op' = IdleOp
  /\ FieldByName(fields, fieldName).type = "number"
  /\ (IF fieldName \in DOMAIN query.numberOperators
      THEN query.numberOperators[fieldName] ELSE "") # operator
  /\ query' = [query EXCEPT
       !.numberOperators = Spread(@, [k \in {fieldName} |-> operator])]
  /\ Refiltered(cachedDocs, query')
  /\ UNCHANGED <<store, audit, currentUser, permissions, fields, cachedDocs,
                 selectedDocs, form, loading, minted, usersStore, rolesStore, started,
                 collectionName, pending, uploadFile, download, calc, peer>>

SortAfter_noReset(q, fieldName) ==
  IF q.sortField = fieldName
  THEN IF q.sortDirection = "asc" THEN [q EXCEPT !.sortDirection = "desc"]
       ELSE [q EXCEPT !.sortDirection = "asc"]
  ELSE [q EXCEPT !.sortField = fieldName, !.sortDirection = "asc"]

\* the sort state after handleSort(fieldName)
SortAfter(q, fieldName) ==
  IF q.sortField = fieldName
  THEN IF q.sortDirection = "asc" THEN [q EXCEPT !.sortDirection = "desc"]
       ELSE IF q.sortDirection = "desc"
       THEN [q EXCEPT !.sortField = NoSort, !.sortDirection = NoSort]
       ELSE q
  ELSE [q EXCEPT !.sortField = fieldName, !.sortDirection = "asc"]

\* the run of consecutive handleSort calls on one field that the call
\* extends or starts: the sort field before the run, the directions after
\* each call
SortRun(fieldName, q) ==
  IF op.kind = "sort" /\ op.field = fieldName /\ Len(op.trace) < 3
  THEN [op EXCEPT !.trace = Append(@, q.sortDirection)]
  ELSE [IdleOp EXCEPT !.kind = "sort", !.pc = "done", !.field = fieldName,
                      !.notes = <<query.sortField>>, !.trace = <<q.sortDirection>>]

\* a click on a column header; the processedDocs and currentPageDocs memos
\* and the setDocs effect follow
handleSort(fieldName) ==
  /\ Ready /\ NoModal
  /\ query' = SortAfter(query, fieldName)
  /\ op' = SortRun(fieldName, query')
  /\ docs' = DisplayOf(cachedFilteredDocs, fields, query')
  /\ UNCHANGED <<store, audit, currentUser, permissions, fields, cachedDocs,
                 cachedFilteredDocs, selectedDocs, form, loading, minted,
                 usersStore, rolesStore, started,
                 collectionName, pending, uploadFile, download, calc, peer>>

\* Math.ceil(n / ITEMS_PER_PAGE)
PageCount(n) == (n + ITEMS_PER_PAGE - 1) \div ITEMS_PER_PAGE

\* the Pagination control, whose total is computed from cachedDocs
handlePageChange(page) ==
  /\ Ready /\ NoModal
  /\ op' = IdleOp
  /\ page \in 1..PageCount(Len(cachedDocs))
  /\ page # query.currentPage
  /\ query' = [query EXCEPT !.currentPage = page]
  /\ docs' = DisplayOf(cachedFilteredDocs, fields, query')
  /\ UNCHANGED <<store, audit, currentUser, permissions, fields, cachedDocs,
                 cachedFilteredDocs, selectedDocs, form, loading, minted,
                 usersStore, rolesStore, started,
                 collectionName, pending, uploadFile, download, calc, peer>>

QuerySchema ==
  <<FieldDef("price", "number", NoRule), FieldDef("flag", "boolean", NoRule),
    FieldDef("kind", "select", NoRule)>>

\* a collection of three documents, not in the order of any of its fields
SmallCache ==
  <<[id |-> Str(Id1), price |-> Num(10), flag |-> Bool(TRUE), kind |-> Str(<<"x">>)],
    [id |-> Str(Id2), price |-> Num(20), flag |-> Bool(FALSE), kind |-> Str(<<"y">>)],
    [id |-> Str(NewId(1)), price |-> Num(5), kind |-> Str(<<"x">>)]>>

\* a collection of more documents than a page holds
LargeCache ==
  [k \in 1..(ITEMS_PER_PAGE + 1) |->
     [id |-> Str(<<"k">> \o NatToStr(k)), price |-> Num((k * 7) % 5),
      flag |-> Bool(k % 2 = 0),
      kind |-> Str(IF k % 3 = 0 THEN <<"x">> ELSE <<"y">>)]]

QueryTerms == {<<>>, <<"2">>, <<"z">>}

SmallTerms == {<<>>, <<"2">>}

\* the values the filter controls set: a number, a boolean, an option
FilterInputs ==
  [price |-> {Num(10)}, flag |-> {Bool(TRUE), Bool(FALSE)}, kind |-> {Str(<<"x">>)}]

NumberOperators == {"=", ">", "<", ">=", "<="}

InitQuery ==
  /\ store = InitialStore
  /\ audit = <<>>
  /\ currentUser = Alice
  /\ permissions = ResolvePermissions(Alice, InitialUsers, InitialRoles, FALSE)
  /\ fields = QuerySchema
  /\ cachedDocs = SmallCache
  /\ cachedFilteredDocs = cachedDocs
  /\ docs = DisplayOf(cachedDocs, fields, InitialQuery)
  /\ query = InitialQuery
  /\ selectedDocs = {}
  /\ form = InitialForm
  /\ loading = FALSE
  /\ minted = 0
  /\ usersStore = InitialUsers
  /\ rolesStore = InitialRoles
  /\ started = 0
  /\ op = IdleOp
  /\ collectionName = CollectionName
  /\ pending = {}
  /\ uploadFile = NoFile
  /\ download = NoDownload
  /\ peer = NoPeer
  /\ calc = NoCall

NextQuery ==
  \/ \E term \in SmallTerms : setSearch(term)
  \/ \E name \in DOMAIN FilterInputs : \E value \in FilterInputs[name] :
       setAdvancedFilter(name, value)
  \/ \E name \in DOMAIN FilterInputs : clearAdvancedFilter(name)
  \/ \E operator \in NumberOperators : setNumberOperator("price", operator)
  \/ \E name \in FieldNames(QuerySchema) : handleSort(name)

SpecQuery == InitQuery /\ [][NextQuery]_vars

\* the page specification: search and page changes over a collection of
\* more than one page
InitPage ==
  /\ store = InitialStore
  /\ audit = <<>>
  /\ currentUser = Alice
  /\ permissions = ResolvePermissions(Alice, InitialUsers, InitialRoles, FALSE)
  /\ fields = QuerySchema
  /\ cachedDocs = LargeCache
  /\ cachedFilteredDocs = cachedDocs
  /\ docs = DisplayOf(cachedDocs, fields, InitialQuery)
  /\ query = InitialQuery
  /\ selectedDocs = {}
  /\ form = InitialForm
  /\ loading = FALSE
  /\ minted = 0
  /\ usersStore = InitialUsers
  /\ rolesStore = InitialRoles
  /\ started = 0
  /\ op = IdleOp
  /\ collectionName = CollectionName
  /\ pending = {}
  /\ uploadFile = NoFile
  /\ download = NoDownload
  /\ peer = NoPeer
  /\ calc = NoCall

NextPage ==
  \/ \E term \in QueryTerms : setSearch(term)
  \/ \E page \in 1..PageCount(Len(LargeCache)) : handlePageChange(page)
  \/ \E value \in FilterInputs["flag"] : setAdvancedFilter("flag", value)
  \/ clearAdvancedFilter("flag")

SpecPage == InitPage /\ [][NextPage]_vars

----------------------------------------------------------------------------
(* The resolution specification: the onAuthStateChanged callback of
   useRolePermissions applied to users, stores and a global configuration *)

\* app_config/global: the default role the configuration names
DefaultRoles == {"viewer", "editor", "admin"}

\* the users store: bob without a role, with the role editor, without document
UserStores ==
  {InitialUsers, [InitialUsers EXCEPT !["bob"] = [role |-> "editor"]],
   [u \in {"alice", "root"} |-> InitialUsers[u]]}

ResolveCalls ==
  {[fn |-> "resolve", user |-> user, users |-> users, roles |-> roles,
    defaultRole |-> defaultRole, readFails |-> readFails, done |-> FALSE,
    result |-> NullPermissions] :
     user \in PermUsers, users \in UserStores,
     roles \in {InitialRoles, ("admin" :> RoleDoc("new", TRUE, TRUE, TRUE, TRUE)) @@ InitialRoles},
     defaultRole \in DefaultRoles, readFails \in BOOLEAN}

InitResolve == IdlePage /\ calc \in ResolveCalls

\* the callback for a signed-in user: it reads users/<uid> and roles/<role>
\* and never app_config/global
CallResolve ==
  /\ calc.fn = "resolve" /\ ~calc.done
  /\ calc' = [calc EXCEPT
       !.done = TRUE,
       !.result = ResolvePermissions(calc.user, calc.users, calc.roles, calc.readFails)]
  /\ UNCHANGED <<store, audit, currentUser, permissions, fields, cachedDocs,
                 cachedFilteredDocs, docs, query, selectedDocs, form, loading,
                 minted, usersStore, rolesStore, started, op,
                 collectionName, pending, uploadFile, download, peer>>

NextResolve == CallResolve

SpecResolve == InitResolve /\ [][NextResolve]_vars

----------------------------------------------------------------------------
(* The two-tab specification: the page is open twice in one session, both
   tabs loaded from the same collection, and the user edits in either *)

\* the component state of the tab in view
TabState ==
  [open |-> TRUE, form |-> form, op |-> op, docs |-> docs,
   cachedDocs |-> cachedDocs, cachedFilteredDocs |-> cachedFilteredDocs,
   query |-> query, selectedDocs |-> selectedDocs, loading |-> loading]

\* the user brings the other tab into view: each tab keeps its own component
\* state, the session and the remote stores are shared
SwitchTab ==
  /\ peer.open
  /\ form' = peer.form
  /\ op' = peer.op
  /\ docs' = peer.docs
  /\ cachedDocs' = peer.cachedDocs
  /\ cachedFilteredDocs' = peer.cachedFilteredDocs
  /\ query' = peer.query
  /\ selectedDocs' = peer.selectedDocs
  /\ loading' = peer.loading
  /\ peer' = TabState
  /\ UNCHANGED <<store, audit, currentUser, permissions, fields, minted,
                 usersStore, rolesStore, started, collectionName, pending,
                 uploadFile, download, calc>>

TwoSchema ==
  <<FieldDef("price", "number", PriceRule), FieldDef("note", "text", NoRule)>>

\* both tabs have loaded the collection and show the same rows
InitTwo ==
  /\ store = InitialStore
  /\ audit = <<>>
  /\ currentUser = Alice
  /\ permissions = ResolvePermissions(Alice, InitialUsers, InitialRoles, FALSE)
  /\ fields = TwoSchema
  /\ cachedDocs = Snapshot(store)
  /\ cachedFilteredDocs = Snapshot(store)
  /\ docs = Snapshot(store)
  /\ query = InitialQuery
  /\ selectedDocs = {}
  /\ form = InitialForm
  /\ loading = FALSE
  /\ minted = 0
  /\ usersStore = InitialUsers
  /\ rolesStore = InitialRoles
  /\ started = 0
  /\ op = IdleOp
  /\ collectionName = CollectionName
  /\ pending = {}
  /\ uploadFile = NoFile
  /\ download = NoDownload
  /\ calc = NoCall
  /\ peer = TabState

NextTwo ==
  \/ SwitchTab
  \/ \E i \in 1..Len(IdOrder) : handleEdit(i)
  \/ \E name \in FieldNames(fields) : \E raw \in RawInputs : EditFieldChange(name, raw)
  \/ saveEdit
  \/ CommitResolve
  \/ AuditResolve
  \/ RefreshResolve

SpecTwo == InitTwo /\ [][NextTwo]_vars

----------------------------------------------------------------------------
(* Properties of a mutation *)

StageRank(name) ==
  CASE name = "validation" -> 1
    [] name = "permission" -> 2
    [] name = "write" -> 3
    [] name = "audit" -> 4
    [] OTHER -> 5

\* the invocation went through the stage with this result
HasStage(name, ok) == \E i \in 1..Len(op.trace) : op.trace[i] = Stage(name, ok)

\* the entries appended since the invocation started
Appended == IF Len(audit) > op.base THEN SubSeq(audit, op.base + 1, Len(audit)) ELSE <<>>

D1Doc == ("id" :> Str(Id1)) @@ ("price" :> Num(10))

C3_CapabilityAtCommit ==
  op.attempts > 0 =>
    IF op.kind = "delete" THEN op.perm.canDelete ELSE op.perm.canEdit

\* C4: a single-document create, update or delete that ended in success
\* appended exactly one audit entry, for its document.
C4_OneEntryPerMutation ==
  op.kind \in {"create", "update", "delete"} /\ op.outcome = "success" =>
    /\ Len(Appended) = 1
    /\ Appended[1].documentId = op.target

\* C5: a bulk edit of a signed-in user that ended in success appended exactly
\* one audit entry per selected id.
C5_OneEntryPerSelected ==
  op.kind = "bulk" /\ op.outcome = "success" /\ op.user # NoUser =>
    /\ Len(Appended) = Cardinality(op.ids)
    /\ \A id \in op.ids : \E k \in 1..Len(Appended) : Appended[k].documentId = id

\* C6: an invocation whose write committed and whose audit append failed keeps
\* the write and ends in success, not in an error.
C6_AuditFailureIsSuccess ==
  HasStage("write", TRUE) /\ HasStage("audit", FALSE) =>
    /\ store # op.store0
    /\ op.outcome = "success"
    /\ "Error" \notin {op.notes[k] : k \in 1..Len(op.notes)}

\* C7: the step in which a commit is rejected ends the invocation after one
\* attempt with one error notification, and changes neither the store, the
\* audit log, the cached snapshot nor the displayed rows; the step that
\* started the invocation changed none of them either, and no entry was
\* appended in between.
C7_RejectedCommit ==
  [][ /\ started' = started + 1 =>
           /\ cachedDocs' = cachedDocs /\ docs' = docs
           /\ store' = store /\ audit' = audit
      /\ op.pc = "commit" /\ op'.pc = "done" /\ op'.outcome = "error" =>
           /\ op'.attempts = 1
           /\ op'.notes = <<"Error">>
           /\ Len(audit) = op.base /\ audit' = audit
           /\ store' = store /\ store = op.store0
           /\ cachedDocs' = cachedDocs /\ docs' = docs
    ]_vars

C7_Witness ==
  /\ op.kind = "bulk"
  /\ op.pc = "done"
  /\ HasStage("write", FALSE)
  /\ op.attempts = 1
  /\ docs = op.docs0

\* C8: whenever the permissions resolved for the signed-in user carry the role
\* name "admin", all four capabilities are true.
C8_AdminAllTrue ==
  currentUser # NoUser /\ ~permissions.isNull /\ permissions.role = "admin" =>
    /\ permissions.canView /\ permissions.canEdit
    /\ permissions.canDelete /\ permissions.canManageRoles

C10_CacheFresh ==
  op.kind # "none" /\ op.outcome = "success" /\ currentUser # NoUser =>
    cachedDocs = Snapshot(store)

\* the documents of a collection as getDocs returns them
DocsOf(c) == {Snapshot(StoreOf(c))[k] : k \in 1..Len(Snapshot(StoreOf(c)))}

EmptyValues == {Null, Undefined, Str(<<>>)}

\* a value satisfies the rules other than `required`: bounds on the magnitude
\* of a number; pattern, e-mail form, URL form and bounds on the length of a
\* string
SatisfiesRules(v, rule) ==
  /\ v.t = "number" =>
       /\ rule.hasMin => v.n >= rule.min
       /\ rule.hasMax => v.n <= rule.max
  /\ v.t = "string" =>
       /\ rule.pattern # "" => PatternCompiles(rule.pattern) /\ PatternTest(rule.pattern, v.s)
       /\ rule.email => EmailTest(v.s)
       /\ rule.url => UrlParses(v.s)
       /\ rule.hasMin => Len(v.s) >= rule.min
       /\ rule.hasMax => Len(v.s) <= rule.max

\* C17: with required = true, validateField returns an error for null,
\* undefined and the empty string, and returns null for every other value
\* that satisfies the remaining rules; in both copies of the library.
C17_Required ==
  /\ calc.fn = "validateField" /\ calc.done
  /\ calc.validation.present /\ calc.validation.required
  =>
    /\ calc.value \in EmptyValues =>
         calc.result # NoError /\ calc.result.field = "f"
    /\ calc.value \notin EmptyValues /\ SatisfiesRules(calc.value, calc.validation) =>
         calc.result = NoError

C17_Witness ==
  /\ calc.fn = "validateField" /\ calc.done
  /\ calc.validation.present /\ calc.validation.required
  /\ calc.value = Str(<<>>)
  /\ calc.result.message # ""

\* C18: with required false or unset, validateField returns null for null,
\* undefined and the empty string, whatever the other rules are.
C18_OptionalEmpty ==
  /\ calc.fn = "validateField" /\ calc.done
  /\ ~calc.validation.required /\ calc.value \in EmptyValues
  => calc.result = NoError

\* C19: a number is rejected iff it is below min or above max; a non-empty
\* string, under a rule without pattern, e-mail or URL check, is rejected iff
\* its length is below min or above max.
C19_Bounds ==
  calc.fn = "validateField" /\ calc.done /\ calc.validation.present =>
    /\ calc.value.t = "number" =>
         (calc.result # NoError <=>
            \/ calc.validation.hasMin /\ calc.value.n < calc.validation.min
            \/ calc.validation.hasMax /\ calc.value.n > calc.validation.max)
    /\ /\ calc.value.t = "string" /\ calc.value.s # <<>>
       /\ calc.validation.pattern = "" /\ ~calc.validation.email /\ ~calc.validation.url
       => (calc.result # NoError <=>
             \/ calc.validation.hasMin /\ Len(calc.value.s) < calc.validation.min
             \/ calc.validation.hasMax /\ Len(calc.value.s) > calc.validation.max)

\* the result of validateField of the copy of the library that was called
FieldResult(module, f, doc) ==
  IF module = "lib" THEN validateFieldLib(f.name, Get(doc, f.name), f.validation)
  ELSE validateField(f.name, Get(doc, f.name), f.validation)

\* the positions of the declared fields whose value fails
FailingFields == {i \in 1..Len(calc.flds) : FieldResult(calc.module, calc.flds[i], calc.doc) # NoError}

\* C20: validateDocument reports every failing field, once, in declaration
\* order (the k-th error is the error of the k-th failing field), and isValid
\* is true iff there is no error.
C20_AllErrorsInOrder ==
  calc.fn = "validateDocument" /\ calc.done =>
    /\ Len(calc.result.errors) = Cardinality(FailingFields)
    /\ \A k \in 1..Len(calc.result.errors) :
         \E i \in FailingFields :
           /\ Cardinality({j \in FailingFields : j < i}) = k - 1
           /\ calc.result.errors[k] = FieldResult(calc.module, calc.flds[i], calc.doc)
           /\ calc.result.errors[k].field = calc.flds[i].name
    /\ calc.result.isValid <=> calc.result.errors = <<>>

C20_Witness ==
  /\ calc.fn = "validateDocument" /\ calc.done
  /\ Len(calc.flds) = 3
  /\ Len(calc.result.errors) = 2
  /\ calc.result.errors[1].field = "a"
  /\ calc.result.errors[2].field = "c"
  /\ ~calc.result.isValid

\* C13 -- a CSV import whose first row is not exactly "id" followed by the
\* schema's field names in order (same length, names and positions) is
\* rejected as a whole: the import ends in an error, no row is put in a batch,
\* no batch is committed and the collection is as it was.
C13_HeaderExact ==
  (op.kind = "import" /\ op.header # CsvHeaders(fields))
    => /\ op.pc = "done" /\ op.outcome = "error"
       /\ op.attempts = 0 /\ op.writes = <<>>
       /\ store = op.store0

\* C14 -- importing the file that export produced writes, for every exported
\* document whose declared fields are all text, a document equal to it field
\* by field, whatever commas, double quotes and newlines the text holds.
C14_RoundTrip ==
  (/\ op.kind = "import" /\ op.pc = "done" /\ op.outcome = "success"
   /\ download.made /\ op.file = download.text)
    => \A k \in 1..Len(download.rows) :
         LET d == download.rows[k]
         IN (\A f \in FieldNames(fields) : Get(d, f).t = "string")
              => \E i \in 1..Len(op.writes) :
                   /\ op.writes[i].id = DocId(d)
                   /\ \A f \in FieldNames(fields) :
                        Get(op.writes[i].data, f) = Get(d, f)

\* C15 -- in an import whose header matched, every data row is counted exactly
\* once, as succeeded or as failed: the two counters add up to the number of
\* data rows, and the rows written are the rows counted as succeeded.
C15_EveryRowCounted ==
  (op.kind = "import" /\ op.attempts > 0)
    => /\ op.successCount + op.errorCount = Len(op.rows)
       /\ op.successCount = Len(op.writes)

\* C16 -- no step of a mutation changes or removes a key of a stored document
\* that the schema does not declare, as long as the document exists.
C16_UndeclaredKept ==
  [][\A id \in (DOMAIN store) \cap (DOMAIN store') :
       \A k \in (DOMAIN store[id]) \ FieldNames(fields) :
         k \in DOMAIN store'[id] /\ store'[id][k] = store[id][k]]_vars

\* C21 -- coercion of a raw form string always yields a value: for a number
\* field a number, the one the string parses to, and 0 when the string does
\* not parse; for a boolean field true iff the string is "true"; for every
\* other field type the string itself.
C21_Coercion ==
  (calc.fn = "Coerce" /\ calc.done)
    => CASE calc.f.type = "number" ->
              /\ calc.result.t = "number"
              /\ parseFloat(calc.val).t = "number" => calc.result = parseFloat(calc.val)
              /\ parseFloat(calc.val).t = "NaN" => calc.result = Num(0)
              /\ (calc.val # <<>> /\ DigitRun(calc.val) = Len(calc.val))
                   => calc.result = Num(DigitsVal(calc.val, 0))
         [] calc.f.type = "boolean" ->
              calc.result = Bool(calc.val = <<"t", "r", "u", "e">>)
         [] OTHER -> calc.result = Str(calc.val)

C21_Witness ==
  /\ calc.fn = "Coerce" /\ calc.done
  /\ calc.f.type = "number"
  /\ calc.val = <<"a", "b", "c">>
  /\ calc.result = Num(0)

\* C27 -- the gate of saveEdit / addDocument blocks the write iff
\* validateDocument applied to the coerced document reports it invalid.
C27_GateIsValidateDocument ==
  (calc.fn = "gate" /\ calc.done)
    => (calc.hasErrors <=> ~validateDocument(calc.updated, calc.flds).isValid)

InList(d, list) == \E k \in 1..Len(list) : list[k] = d

\* no advanced filter has a value
NoActiveFilter ==
  \A name \in DOMAIN query.debouncedFilters :
    query.debouncedFilters[name] = Str(<<>>)

Satisfies(d, name, value) ==
  LET type == FieldByName(fields, name).type
      operator == IF name \in DOMAIN query.numberOperators
                  THEN query.numberOperators[name] ELSE "="
      v == Get(d, name)
  IN CASE type = "number" ->
            /\ v.t = "number" /\ value.t = "number"
            /\ (CASE operator = "=" -> v.n = value.n
                  [] operator = ">" -> v.n > value.n
                  [] operator = "<" -> v.n < value.n
                  [] operator = ">=" -> v.n >= value.n
                  [] operator = "<=" -> v.n <= value.n)
       [] type \in {"boolean", "select"} -> v = value
       [] OTHER -> Includes(ToLowerCase(ToStr(v)), ToLowerCase(ToStr(value)))

\* C23 -- a cached document is in the filtered set iff it satisfies the search
\* and every filter with a non-empty value: a number filter by its operator,
\* a boolean or select filter by equality with the value the control set.
C23_FilterSemantics ==
  (collectionName = CollectionName /\ fields = QuerySchema) =>
    \A k \in 1..Len(cachedDocs) :
      InList(cachedDocs[k], cachedFilteredDocs)
        <=> /\ MatchesSearch(cachedDocs[k], query.debouncedSearch)
            /\ \A name \in DOMAIN query.debouncedFilters :
                 \/ query.debouncedFilters[name] = Str(<<>>)
                 \/ Satisfies(cachedDocs[k], name, query.debouncedFilters[name])

\* C24 -- the sort field is null iff the sort direction is null; and three
\* consecutive handleSort calls on one field from the unsorted state go
\* ascending, descending, none, after which the processed list is the
\* filtered set in its own order and the page shown is cut from it.
C24_SortCycle ==
  /\ (query.sortField = NoSort) <=> (query.sortDirection = NoSort)
  /\ (op.kind = "sort" /\ op.notes = <<NoSort>>)
       => /\ op.trace = SubSeq(<<"asc", "desc", NoSort>>, 1, Len(op.trace))
          /\ Len(op.trace) < 3 => query.sortField = op.field
          /\ Len(op.trace) = 3
               => /\ query.sortField = NoSort
                  /\ processedDocs(cachedFilteredDocs, fields, query) = cachedFilteredDocs
                  /\ docs = currentPageDocs(cachedFilteredDocs, query)

C24_Witness ==
  /\ op.kind = "sort" /\ op.notes = <<NoSort>> /\ Len(op.trace) = 3
  /\ op.field = "price"
  /\ Len(cachedFilteredDocs) = 3
  /\ docs = cachedFilteredDocs
  /\ SortDocs(cachedFilteredDocs, fields, "price", "asc") # cachedFilteredDocs

\* C28 -- the rows displayed are the current page of the processed list:
\* the slice of ITEMS_PER_PAGE documents of the filtered and sorted cache.
C28_DisplayedIsPage ==
  docs = currentPageDocs(processedDocs(cachedFilteredDocs, fields, query), query)

HasAssignedRole(user, users) == user.uid \in DOMAIN users /\ users[user.uid].role # ""

\* the capabilities a stored role document grants
Grants(roles, role, p) == role \in DOMAIN roles /\ roles[role][p]

\* C25 -- for a user without an assigned role the evaluator resolves the
\* default role of the global configuration and applies that role's
\* permission set.
C25_ConfiguredDefault ==
  (/\ calc.fn = "resolve" /\ calc.done /\ ~calc.readFails
   /\ ~HasAssignedRole(calc.user, calc.users))
    => /\ calc.result.role = calc.defaultRole
       /\ \A p \in PermNames :
            calc.result[p] <=> (calc.defaultRole = "admin"
                                \/ Grants(calc.roles, calc.defaultRole, p))

\* C30 -- a capability of the signed-in user is true only if the role the
\* users store assigns to the user (the default role when it assigns none) is
\* "admin" or the stored document of that role grants the capability.
C30_OnlyRoleGrants ==
  (currentUser # NoUser /\ ~permissions.isNull)
    => \A p \in PermNames :
         permissions[p]
           => \/ AssignedRole(currentUser, usersStore) = "admin"
              \/ Grants(rolesStore, AssignedRole(currentUser, usersStore), p)

\* the declared fields whose form value an update changed
Changed(o) ==
  {f \in FieldNames(fields) : ToStr(o.payload[f]) # SafeFields(fields, o.before)[f]}

\* C29 -- a committed update stores the form value of every declared field,
\* whatever the document holds at that moment: nothing is merged with or
\* checked against a change committed since the form was opened.
C29_LastWriterWins ==
  [][(/\ op.kind = "update" /\ op.pc = "commit"
      /\ peer' = peer
      /\ op'.trace = Append(op.trace, Stage("write", TRUE)))
       => \A f \in FieldNames(fields) : store'[op.target][f] = op.payload[f]]_vars

\* two updates of d1 opened from the same rows, one changing the price and
\* the other the note, have both ended in success, and the note is lost
C29_Witness ==
  /\ peer.open
  /\ op.kind = "update" /\ op.outcome = "success"
  /\ peer.op.kind = "update" /\ peer.op.outcome = "success"
  /\ op.target = Id1 /\ peer.op.target = Id1
  /\ op.before = peer.op.before
  /\ Changed(op) = {"price"} /\ Changed(peer.op) = {"note"}
  /\ store[Id1]["price"] = op.payload["price"]
  /\ store[Id1]["note"] # peer.op.payload["note"]
  /\ store[Id1]["note"] = op.payload["note"]

====
